---- MODULE Spec2Model ----
(***************************************************************************)
(* Model of replit/ruspty, src/lib.rs: the Pty handle (constructor, fd,    *)
(* resize, close), the per-child reaper thread (pidfd/poll drain loop,     *)
(* child.wait, on_exit) and the kernel objects they act on (the process's  *)
(* descriptor table, the PTY buffer, the child process).                   *)
(***************************************************************************)
EXTENDS Integers, Sequences, FiniteSets, TLC

(* ------------------------------ bounds --------------------------------- *)
\* Highest descriptor number of the host process's table (RLIMIT_NOFILE - 1).
MaxFd == 8
\* Number of bytes the child may write to the PTY over its life.
MaxOut == 1
\* Exit codes the child may exit with are 0..MaxExitCode.
MaxExitCode == 1

(* --------------------------- program constants ------------------------- *)
\* libc::EBADF, formatted into the message of close().
EBADF == 9
\* Lowest descriptor number F_DUPFD_CLOEXEC may return (third fcntl argument).
DupMin == 3

\* Descriptor numbers the library can be given (0, 1, 2 are the host's stdio).
FdNums == DupMin..MaxFd
\* What a descriptor number of the host process refers to.
Kinds == {"free", "ctrl", "user", "pidfd"}
\* Option<T> is a set with at most one element.
None == {}
Some(x) == {x}
\* Size { cols, rows }: the default of Pty::new and one other size.
DefaultSize == <<80, 24>>
Sizes == {DefaultSize, <<132, 40>>}
ExitCodes == 0..MaxExitCode
\* Signals that may kill the child (SIGKILL).
Signals == {9}
\* errno values child.wait() may fail with (ECHILD: the child was reaped elsewhere).
WaitErrnos == {10}

VARIABLES
  phase,          \* "init": Pty::new not called; "ok": it returned a Pty; "failed": it returned Err
  should_dup_fds, \* Pty.should_dup_fds
  controller_fd,  \* Pty.controller_fd : Option<OwnedFd>
  user_fd,        \* Pty.user_fd : Option<OwnedFd>
  has_on_data,    \* opts.on_data was Some
  fds,            \* the host process's descriptor table: number -> kind
  hostFds,        \* descriptor numbers returned by fd() that the host has not closed
  rpc,            \* the reaper thread's position
  r_ctrl,         \* the reaper's clone of the controller (Option)
  r_pidfd,        \* the reaper's pidfd (Option)
  revents,        \* poll_fds[0..1].revents contains IN
  child,          \* [st, code, stdio]: the child process
  ptyBuf,         \* bytes written by the child, readable on the controller
  written,        \* number of bytes the child has written
  delivered,      \* bytes the host has got: handed to on_data, or read by the host
                  \* itself through a descriptor from fd()
  onExit,         \* the on_exit invocations, in order
  dataErrs,       \* the on_data(Err) invocations, in order
  log,            \* the reaper's events in order: drain_done, reaped, on_exit
  lastCall,       \* the last host call on the handle and its result
  closeOk,        \* close() has returned Ok on this handle
  fdOk,           \* some fd() call has returned Ok
  waitRes         \* the reaper's result of child.wait() (Option)

handleVars == <<phase, should_dup_fds, controller_fd, user_fd, has_on_data>>
kernelVars == <<fds, child, ptyBuf, written>>
reaperVars == <<rpc, r_ctrl, r_pidfd, revents, onExit, dataErrs, log, waitRes>>
hostVars == <<hostFds, delivered, lastCall, closeOk, fdOk>>
ptyVars == <<handleVars, kernelVars, reaperVars, hostVars>>

\* The state of sandbox.rs: the process that calls install_sandbox, the tracer it
\* forks into and the processes the tracer traces.
VARIABLES
  options,        \* Options { rules } given to install_sandbox
  procs,          \* the traced processes: pid -> [st, why, rep, regs, n]
  tpc,            \* the tracer's position in install_sandbox / run_parent
  status_code,    \* the status the tracer has called _exit with (Option)
  stderr,         \* what the tracer has printed with eprintln! (Option)
  tracer          \* the tracer process: CHILD_PID, handlers, descriptors, ...

sbVars == <<options, procs, tpc, status_code, stderr, tracer>>
\* The child of cmd.spawn() in the pre_exec closure of Pty::new: the libc calls
\* it has made with their outcomes, and how the closure ended.
VARIABLES hook

vars == <<ptyVars, sbVars, hook>>

(* ------------------------------ helpers -------------------------------- *)
Min(S) == CHOOSE x \in S : \A y \in S : x <= y

\* The lowest free descriptor number >= lo, as every descriptor-creating call picks it.
LowestFree(t, lo) ==
  LET free == {n \in FdNums : n >= lo /\ t[n] = "free"}
  IN  IF free = {} THEN None ELSE Some(Min(free))

The(opt) == CHOOSE x \in opt : TRUE

\* OwnedFd::drop: close(2) on the number, whatever it refers to by now.
CloseFd(t, opt) == [n \in FdNums |-> IF n \in opt THEN "free" ELSE t[n]]

\* A napi::Error / io::Error message: fixed text and an optionally formatted number.
Msg(text, arg) == [text |-> text, arg |-> arg]
NoMsg == Msg("", None)

\* The result of a host call: Ok(val) or Err(msg), and the syscalls it issued.
Ok(op, val, sys) == [op |-> op, ok |-> TRUE, val |-> val, msg |-> NoMsg, sys |-> sys]
Err(op, msg, sys) == [op |-> op, ok |-> FALSE, val |-> None, msg |-> msg, sys |-> sys]

\* The user side of the PTY is open somewhere: in the parent, or as the child's stdio.
UserOpen(t, c) == (\E n \in FdNums : t[n] = "user") \/ c.stdio
\* The controller side is open somewhere in the host process.
CtrlOpen(t) == \E n \in FdNums : t[n] = "ctrl"
ChildDead(c) == c.st \in {"exited", "signaled"}

\* poll(2)'s POLLIN for one descriptor number.
PollIn(t, opt, buf, c) ==
  /\ opt # None
  /\ \/ t[The(opt)] = "ctrl" /\ buf # <<>>
     \/ t[The(opt)] = "pidfd" /\ ChildDead(c)

\* No Pty has been constructed.
PtyIdle ==
  /\ phase = "init"
  /\ should_dup_fds = FALSE
  /\ controller_fd = None
  /\ user_fd = None
  /\ has_on_data = FALSE
  /\ fds = [n \in FdNums |-> "free"]
  /\ hostFds = {}
  /\ rpc = "none"
  /\ r_ctrl = None
  /\ r_pidfd = None
  /\ revents = <<FALSE, FALSE>>
  /\ child = [st |-> "none", code |-> 0, stdio |-> FALSE]
  /\ ptyBuf = <<>>
  /\ written = 0
  /\ delivered = {}
  /\ onExit = <<>>
  /\ dataErrs = <<>>
  /\ log = <<>>
  /\ lastCall = Ok("none", None, <<>>)
  /\ closeOk = FALSE
  /\ fdOk = FALSE
  /\ waitRes = None

\* install_sandbox has not been called.
SandboxIdle ==
  /\ options = [rules |-> <<>>]
  /\ procs = <<>>
  /\ tpc = "idle"
  /\ status_code = None
  /\ stderr = None
  /\ tracer = [CHILD_PID |-> 0 - 1, handlers |-> FALSE, fds |-> {}, signals |-> {},
               traced |-> {}, step |-> 1]

Init == PtyIdle /\ SandboxIdle /\ hook = [calls |-> <<>>, end |-> "none"]

(* --------------------------- Pty::new ---------------------------------- *)
\* The steps of Pty::new that can fail, in program order ("none": all succeed).
NewFails ==
  {"none", "node_version", "openpty", "tcgetattr", "tcsetattr", "try_clone", "spawn",
   "set_nonblocking", "tsfn_exit", "tsfn_data", "clone_ctrl"}
\* The steps that come after cmd.spawn() has returned the child.
PostSpawn == {"set_nonblocking", "tsfn_exit", "tsfn_data", "clone_ctrl"}
\* The steps whose failure Pty::new goes on from: `if let Ok(..) = tcgetattr(..)`.
NewTolerated == {"tcgetattr"}
\* The steps that are over when termios is read, and when it is written.
BeforeTermios == {"node_version", "openpty"}

\* Environments: sets of <<name, value>> with one value per name. The host's
\* ambient environment, and opts.envs : Option<HashMap<String, String>>.
Ambients == {{}, {<<"PATH", "h">>}}
EnvOpts == {None, Some({}), Some({<<"PATH", "x">>}), Some({<<"A", "x">>})}

\* The environment the child is executed with: Command inherits the parent's
\* environment, and cmd.envs(envs) adds or overrides the given variables.
CmdEnv(amb, envs) ==
  IF envs = None THEN amb
  ELSE {v \in amb : \A e \in The(envs) : e[1] # v[1]} \cup The(envs)

\* The calls of Pty::new on the controller's termios and the exec of the child,
\* up to the step f at which it returned (fail: the failure injected).
NewSys(f, fail, amb, envs) ==
  (IF f \in BeforeTermios THEN <<>> ELSE <<<<"tcgetattr", fail # "tcgetattr">>>>)
  \o (IF f \in BeforeTermios \/ fail = "tcgetattr" THEN <<>>
      ELSE <<<<"tcsetattr", "IUTF8", f # "tcsetattr">>>>)
  \o (IF f \in PostSpawn \cup {"none"} THEN <<<<"execve", envs, CmdEnv(amb, envs)>>>>
      ELSE <<>>)

Alloc(t, opt, kind) == [n \in FdNums |-> IF n \in opt THEN kind ELSE t[n]]

\* Mutant of NewFds: the reaper is given the handle's controller descriptor, not
\* a clone of it.
NewFdsShared(t0, onData) ==
  LET c  == LowestFree(t0, DupMin)
      t1 == Alloc(t0, c, "ctrl")
      u  == LowestFree(t1, DupMin)
      t2 == Alloc(t1, u, "user")
      s1 == LowestFree(t2, DupMin)
      t3 == Alloc(t2, s1, "user")
      s2 == LowestFree(t3, DupMin)
      t4 == Alloc(t3, s2, "user")
      s3 == LowestFree(t4, DupMin)
      t5 == Alloc(t4, s3, "user")
      d  == IF onData THEN c ELSE None
  IN  [ok |-> None \notin {c, u, s1, s2, s3},
       c |-> c, u |-> u, d |-> d,
       t |-> CloseFd(t5, s1 \cup s2 \cup s3)]

\* The descriptors Pty::new creates, in order: the PTY pair, three clones of the
\* user side for the child's stdio (held by cmd until new returns) and, with
\* on_data, the reaper's clone of the controller.
NewFds(t0, onData) ==
  LET c  == LowestFree(t0, DupMin)
      t1 == Alloc(t0, c, "ctrl")
      u  == LowestFree(t1, DupMin)
      t2 == Alloc(t1, u, "user")
      s1 == LowestFree(t2, DupMin)
      t3 == Alloc(t2, s1, "user")
      s2 == LowestFree(t3, DupMin)
      t4 == Alloc(t3, s2, "user")
      s3 == LowestFree(t4, DupMin)
      t5 == Alloc(t4, s3, "user")
      d  == IF onData THEN LowestFree(t5, DupMin) ELSE None
      t6 == Alloc(t5, d, "ctrl")
  IN  [ok |-> None \notin ({c, u, s1, s2, s3} \cup (IF onData THEN {d} ELSE {})),
       c |-> c, u |-> u, d |-> d,
       t |-> CloseFd(t6, s1 \cup s2 \cup s3)]

\* Mutant of ReaperStart: the thread goes straight to child.wait().
ReaperStartNoDrain(onData) == "wait"

\* Where the reaper thread starts: with on_data it runs the drain closure first.
ReaperStart(onData) == IF onData THEN "pidfd_open" ELSE "wait"

\* Pty::new(env, opts). An Err return drops every descriptor made so far; after
\* spawn the child is already running and stays so. (The window size the PTY is
\* opened with is kernel state no action reads; it is not kept.)
New(dup, onData, fail, amb, envs) ==
  /\ phase = "init"
  /\ fail \in {"tsfn_data", "clone_ctrl"} => onData
  /\ LET a == NewFds(fds, onData)
         f == IF fail \in NewTolerated \cup {"none"}
              THEN IF a.ok THEN "none" ELSE "try_clone"
              ELSE fail
     IN
     IF f = "none"
     THEN /\ phase' = "ok"
          /\ should_dup_fds' = dup
          /\ has_on_data' = onData
          /\ controller_fd' = a.c
          /\ user_fd' = a.u
          /\ fds' = a.t
          /\ r_ctrl' = a.d
          /\ rpc' = ReaperStart(onData)
          /\ child' = [st |-> "running", code |-> 0, stdio |-> TRUE]
          /\ lastCall' = Ok("new", None, NewSys(f, fail, amb, envs))
     ELSE /\ phase' = "failed"
          /\ child' = IF f \in PostSpawn
                      THEN [st |-> "running", code |-> 0, stdio |-> TRUE]
                      ELSE child
          /\ lastCall' = Err("new", Msg(f, None), NewSys(f, fail, amb, envs))
          /\ UNCHANGED <<should_dup_fds, has_on_data, controller_fd, user_fd, fds,
                         r_ctrl, rpc>>
  /\ UNCHANGED <<ptyBuf, written, r_pidfd, revents, onExit, dataErrs, log, waitRes,
                 hostFds, delivered, closeOk, fdOk>>
  /\ UNCHANGED <<sbVars, hook>>

(* --------------------------- Pty::resize ------------------------------- *)
\* ioctl(fd, TIOCSWINSZ, &window_size): 0 on a terminal, -1 otherwise.
IoctlWinszOk(t, n) == t[n] \in {"ctrl", "user"}

ResizeResult(cfd, t, size) ==
  IF cfd # None
  THEN IF IoctlWinszOk(t, The(cfd))
       THEN Ok("resize", None, <<<<"ioctl", The(cfd), size>>>>)
       ELSE Err("resize", Msg("ioctl TIOCSWINSZ failed: ", None),
                <<<<"ioctl", The(cfd), size>>>>)
  ELSE Err("resize", Msg("ioctl TIOCSWINSZ failed: bad file descriptor (os error 9)", None),
           <<>>)

Resize(size) ==
  /\ phase = "ok"
  /\ lastCall' = ResizeResult(controller_fd, fds, size)
  /\ UNCHANGED <<handleVars, fds, child, ptyBuf, written, reaperVars,
                 hostFds, delivered, closeOk, fdOk>>
  /\ UNCHANGED <<sbVars, hook>>

(* ----------------------------- Pty::fd --------------------------------- *)
\* Mutant of FdResult: the raw descriptor is returned under node too.
FdResultRaw(cfd, dup, t) ==
  IF cfd # None
  THEN Ok("fd", cfd, <<>>)
  ELSE Err("fd", Msg("fcntl F_DUPFD_CLOEXEC failed: bad file descriptor (os error 9)", None),
           <<>>)

\* fd(): the raw descriptor under bun, a fresh F_DUPFD_CLOEXEC duplicate under node.
FdResult(cfd, dup, t) ==
  IF cfd # None
  THEN IF ~dup
       THEN Ok("fd", cfd, <<>>)
       ELSE LET res == IF t[The(cfd)] = "free" THEN None ELSE LowestFree(t, DupMin)
            IN  IF res = None
                THEN Err("fd", Msg("fcntl F_DUPFD_CLOEXEC failed: ", None),
                         <<<<"fcntl", The(cfd)>>>>)
                ELSE Ok("fd", res, <<<<"fcntl", The(cfd)>>>>)
  ELSE Err("fd", Msg("fcntl F_DUPFD_CLOEXEC failed: bad file descriptor (os error 9)", None),
           <<>>)

\* Mutant of FdKeep: fd() takes the descriptor out of the handle.
FdKeepTake(cfd) == None

\* fd() borrows `&self.controller_fd`: the field is the same after the call.
FdKeep(cfd) == cfd

Fd ==
  /\ phase = "ok"
  /\ lastCall' = FdResult(controller_fd, should_dup_fds, fds)
  /\ controller_fd' = FdKeep(controller_fd)
  /\ IF lastCall'.ok
     THEN /\ fds' = IF should_dup_fds
                    THEN Alloc(fds, lastCall'.val, fds[The(controller_fd)])
                    ELSE fds
          /\ hostFds' = hostFds \cup lastCall'.val
          /\ fdOk' = TRUE
     ELSE UNCHANGED <<fds, hostFds, fdOk>>
  /\ UNCHANGED <<phase, should_dup_fds, user_fd, has_on_data, child, ptyBuf, written,
                 reaperVars, delivered, closeOk>>
  /\ UNCHANGED <<sbVars, hook>>

(* ---------------------------- Pty::close ------------------------------- *)
\* close(): both Options are taken first; the result depends on the controller only.
\* Mutant of CloseResult: closing a closed handle is a silent no-op.
CloseResultQuiet(cfd, ufd, closeErr) ==
  IF cfd = None
  THEN Ok("close", None, <<>>)
  ELSE Ok("close", None, <<<<"close", The(ufd), closeErr>>, <<"close", The(cfd), closeErr>>>>)

\* closeErr: a close(2) issued by the drops fails; OwnedFd::drop ignores that.
CloseResult(cfd, ufd, closeErr) ==
  IF cfd = None
  THEN Err("close", Msg("close failed: ", Some(EBADF)), <<>>)
  ELSE Ok("close", None, <<<<"close", The(ufd), closeErr>>, <<"close", The(cfd), closeErr>>>>)

\* Mutant of CloseTake: close() takes the user fd only.
CloseTakeUserOnly(cfd, ufd) == [controller_fd |-> cfd, user_fd |-> None]

\* The fields of the handle after close(): take() leaves None in both.
CloseTake(cfd, ufd) == [controller_fd |-> None, user_fd |-> None]

Close(closeErr) ==
  /\ phase = "ok"
  /\ lastCall' = CloseResult(controller_fd, user_fd, closeErr)
  /\ controller_fd' = CloseTake(controller_fd, user_fd).controller_fd
  /\ user_fd' = CloseTake(controller_fd, user_fd).user_fd
  /\ fds' = CloseFd(fds, (controller_fd \ controller_fd') \cup (user_fd \ user_fd'))
  /\ closeOk' = (closeOk \/ lastCall'.ok)
  /\ hostFds' = hostFds
  /\ UNCHANGED <<phase, should_dup_fds, has_on_data, child, ptyBuf, written,
                 reaperVars, delivered, fdOk>>
  /\ UNCHANGED <<sbVars, hook>>


(* ------------------------------ the host ------------------------------- *)
Prefix(q, n) == SubSeq(q, 1, n)
Suffix(q, n) == SubSeq(q, n + 1, Len(q))
Range(q) == {q[i] : i \in 1..Len(q)}

\* The host's stream reads n bytes from a descriptor it got from fd().
HostRead(n) ==
  /\ \E h \in hostFds : fds[h] = "ctrl"
  /\ n \in 1..Len(ptyBuf)
  /\ delivered' = delivered \cup Range(Prefix(ptyBuf, n))
  /\ ptyBuf' = Suffix(ptyBuf, n)
  /\ UNCHANGED <<handleVars, fds, child, written, reaperVars,
                 hostFds, lastCall, closeOk, fdOk>>
  /\ UNCHANGED <<sbVars, hook>>

\* Under node the host's stream closes the duplicate it was given (autoClose);
\* under bun the runtime does not close it (doc comment of Pty::fd).
HostCloseFd(h) ==
  /\ should_dup_fds
  /\ h \in hostFds
  /\ fds' = CloseFd(fds, {h})
  /\ hostFds' = hostFds \ {h}
  /\ UNCHANGED <<handleVars, child, ptyBuf, written, reaperVars,
                 delivered, lastCall, closeOk, fdOk>>
  /\ UNCHANGED <<sbVars, hook>>

(* ------------------------------ the child ------------------------------ *)
\* The child writes one byte to its stdout; bytes are numbered in writing order.
ChildWrite ==
  /\ child.st = "running" /\ child.stdio
  /\ CtrlOpen(fds)
  /\ written < MaxOut
  /\ written' = written + 1
  /\ ptyBuf' = Append(ptyBuf, written + 1)
  /\ UNCHANGED <<handleVars, fds, child, reaperVars, hostVars>>
  /\ UNCHANGED <<sbVars, hook>>

\* The child closes its stdin, stdout and stderr and keeps running.
ChildCloseStdio ==
  /\ child.st = "running" /\ child.stdio
  /\ child' = [child EXCEPT !.stdio = FALSE]
  /\ UNCHANGED <<handleVars, fds, ptyBuf, written, reaperVars, hostVars>>
  /\ UNCHANGED <<sbVars, hook>>

ChildExit(code) ==
  /\ child.st = "running"
  /\ child' = [st |-> "exited", code |-> code, stdio |-> FALSE]
  /\ UNCHANGED <<handleVars, fds, ptyBuf, written, reaperVars, hostVars>>
  /\ UNCHANGED <<sbVars, hook>>

ChildKilled(sig) ==
  /\ child.st = "running"
  /\ child' = [st |-> "signaled", code |-> sig, stdio |-> FALSE]
  /\ UNCHANGED <<handleVars, fds, ptyBuf, written, reaperVars, hostVars>>
  /\ UNCHANGED <<sbVars, hook>>

(* ------------------------- the reaper thread --------------------------- *)
\* Mutant of AfterDrain: an Err of the drain closure ends the thread.
AfterDrainAbort(res) == IF res = "err" THEN "done" ELSE "wait"

\* Where the thread goes when the drain closure has returned res ("ok" or "err"):
\* in both cases on to child.wait().
AfterDrain(res) == "wait"

\* The end of the `if let Some((ts_on_data, controller_fd))` block: an Err of the
\* closure goes to on_data, the clone of the controller and the pidfd are dropped.
\* Mutant of DrainDrops: the reaper releases the parent's user fd as well.
DrainDropsUser(rc, rp, u) == rc \cup rp \cup u

\* What goes out of scope when the drain block ends: the clone of the controller
\* and the pidfd; the user fd belongs to the handle.
DrainDrops(rc, rp, u) == rc \cup rp

DrainEnd(res, msg) ==
  /\ dataErrs' = IF res = "err" THEN Append(dataErrs, msg) ELSE dataErrs
  /\ fds' = CloseFd(fds, DrainDrops(r_ctrl, r_pidfd, user_fd))
  /\ r_ctrl' = None
  /\ r_pidfd' = None
  /\ log' = Append(log, "drain_" \o res)
  /\ rpc' = AfterDrain(res)
  /\ revents' = <<FALSE, FALSE>>
  /\ UNCHANGED <<onExit, waitRes>>

\* pidfd_open(child.id()).
PidfdOpen(fail) ==
  /\ rpc = "pidfd_open"
  /\ LET p == IF fail THEN None ELSE LowestFree(fds, 0)
     IN  IF p = None
         THEN DrainEnd("err", Msg("pidfd_open: ", None))
         ELSE /\ fds' = Alloc(fds, p, "pidfd")
              /\ r_pidfd' = p
              /\ rpc' = "poll_ctrl"
              /\ UNCHANGED <<r_ctrl, revents, onExit, dataErrs, log, waitRes>>
  /\ UNCHANGED <<handleVars, child, ptyBuf, written, hostVars>>
  /\ UNCHANGED <<sbVars, hook>>

\* poll(&mut poll_fds, -1) examines the descriptors in array order: first the
\* controller ...
PollCtrl(fail) ==
  /\ rpc = "poll_ctrl"
  /\ IF fail
     THEN DrainEnd("err", Msg("OS error when waiting for child read: ", None))
     ELSE /\ revents' = <<PollIn(fds, r_ctrl, ptyBuf, child), FALSE>>
          /\ rpc' = "poll_pidfd"
          /\ UNCHANGED <<fds, r_ctrl, r_pidfd, onExit, dataErrs, log, waitRes>>
  /\ UNCHANGED <<handleVars, child, ptyBuf, written, hostVars>>
  /\ UNCHANGED <<sbVars, hook>>

\* ... then the pidfd. With no event on either it sleeps and examines them again,
\* which is what the loop around it does too.
PollPidfd ==
  /\ rpc = "poll_pidfd"
  /\ revents' = <<revents[1], PollIn(fds, r_pidfd, ptyBuf, child)>>
  /\ rpc' = "check"
  /\ UNCHANGED <<fds, r_ctrl, r_pidfd, onExit, dataErrs, log, waitRes>>
  /\ UNCHANGED <<handleVars, child, ptyBuf, written, hostVars>>
  /\ UNCHANGED <<sbVars, hook>>

\* What rustix::io::read(&controller_fd, &mut buf) can return: "data", or an errno.
\* fail: the read fails for a reason of its own (EINVAL stands for any such errno).
ReadOutcomes(t, opt, buf, c, fail) ==
  IF fail THEN {"EINVAL"}
  ELSE IF opt # None /\ t[The(opt)] = "ctrl"
       THEN IF buf # <<>> THEN {"data"}
            ELSE IF UserOpen(t, c) THEN {"EAGAIN"} ELSE {"EIO"}
       ELSE {"EBADF"}

\* `continue`: back to the top of the loop, where the revents are cleared.
Continue ==
  /\ rpc' = "poll_ctrl"
  /\ revents' = <<FALSE, FALSE>>
  /\ UNCHANGED <<fds, r_ctrl, r_pidfd, onExit, dataErrs, log, waitRes>>

\* The body of the loop after poll: the controller is looked at first, the pidfd
\* only when the controller had no POLLIN.
Check(n, fail) ==
  /\ rpc = "check"
  /\ IF revents[1]
     THEN \E o \in ReadOutcomes(fds, r_ctrl, ptyBuf, child, fail) :
            CASE o = "data" ->
                   /\ n \in 1..Len(ptyBuf)
                   /\ delivered' = delivered \cup Range(Prefix(ptyBuf, n))
                   /\ ptyBuf' = Suffix(ptyBuf, n)
                   /\ Continue
              [] o \in {"EAGAIN", "EINTR"} ->
                   /\ Continue
                   /\ UNCHANGED <<delivered, ptyBuf>>
              [] o = "EIO" ->
                   /\ DrainEnd("ok", NoMsg)
                   /\ UNCHANGED <<delivered, ptyBuf>>
              [] OTHER ->
                   /\ DrainEnd("err", Msg("OS error when reading from child: " \o o, None))
                   /\ UNCHANGED <<delivered, ptyBuf>>
     ELSE /\ IF revents[2] THEN DrainEnd("ok", NoMsg) ELSE Continue
          /\ UNCHANGED <<delivered, ptyBuf>>
  /\ UNCHANGED <<handleVars, child, written,
                 hostFds, lastCall, closeOk, fdOk>>
  /\ UNCHANGED <<sbVars, hook>>

\* Mutant of WaitReady: wait() returns while the child is still running.
WaitReadyEarly(c) == TRUE

\* child.wait() returns once the child has terminated.
WaitReady(c) == ChildDead(c)

\* What child.wait() returns: the ExitStatus, or an OS error.
WaitResults(c) ==
  {[kind |-> c.st, n |-> c.code]} \cup {[kind |-> "error", n |-> e] : e \in WaitErrnos}

Wait(res) ==
  /\ rpc = "wait"
  /\ WaitReady(child)
  /\ res \in WaitResults(child)
  /\ waitRes' = Some(res)
  /\ log' = Append(log, "reaped")
  /\ rpc' = "call_exit"
  /\ UNCHANGED <<fds, r_ctrl, r_pidfd, revents, onExit, dataErrs>>
  /\ UNCHANGED <<handleVars, child, ptyBuf, written, hostVars>>
  /\ UNCHANGED <<sbVars, hook>>

\* Mutant of ExitCallback: a death by signal reports the signal number as the code.
ExitCallbackSignalCode(res) ==
  IF res.kind = "error"
  THEN [err |-> Some(Msg("OS error when waiting for child process to exit: ", Some(res.n))),
        code |-> None]
  ELSE [err |-> None, code |-> Some(res.n)]

\* The arguments on_exit gets for a result of child.wait(): (err, exit_code).
ExitCallback(res) ==
  IF res.kind = "error"
  THEN [err |-> Some(Msg("OS error when waiting for child process to exit: ", Some(res.n))),
        code |-> None]
  ELSE IF res.kind = "exited" /\ res.n = 0
       THEN [err |-> None, code |-> Some(0)]
       ELSE [err |-> None,
             code |-> Some(IF res.kind = "exited" THEN res.n ELSE -1)]

\* ts_on_exit.call(..., Blocking): the host accepts the frame and runs on_exit.
CallExit ==
  /\ rpc = "call_exit"
  /\ onExit' = Append(onExit, ExitCallback(The(waitRes)))
  /\ log' = Append(log, "on_exit")
  /\ rpc' = "done"
  /\ UNCHANGED <<fds, r_ctrl, r_pidfd, revents, dataErrs, waitRes>>
  /\ UNCHANGED <<handleVars, child, ptyBuf, written, hostVars>>
  /\ UNCHANGED <<sbVars, hook>>

Reaper ==
  \/ \E fail \in BOOLEAN : PidfdOpen(fail)
  \/ \E fail \in BOOLEAN : PollCtrl(fail)
  \/ PollPidfd
  \/ \E n \in 1..MaxOut, fail \in BOOLEAN : Check(n, fail)
  \/ \E res \in WaitResults(child) : Wait(res)
  \/ CallExit

Next ==
  \/ \E dup \in BOOLEAN, onData \in BOOLEAN, fail \in NewFails,
        amb \in Ambients, envs \in EnvOpts :
       New(dup, onData, fail, amb, envs)
  \/ \E size \in Sizes : Resize(size)
  \/ Fd
  \/ \E closeErr \in BOOLEAN : Close(closeErr)
  \/ \E n \in 1..MaxOut : HostRead(n)
  \/ \E h \in FdNums : HostCloseFd(h)
  \/ ChildWrite
  \/ ChildCloseStdio
  \/ \E code \in ExitCodes : ChildExit(code)
  \/ \E sig \in Signals : ChildKilled(sig)
  \/ Reaper

Spec == Init /\ [][Next]_vars

\* The reaper is a thread of its own: the scheduler runs it whenever it can step.
LiveSpec == Spec /\ WF_vars(Reaper)

(* --------------------- Pty::new: the pre_exec closure ------------------ *)
\* The libc calls of the closure, in program order.
HookSteps ==
  <<"setsid", "TIOCSCTTY", "close_user", "close_controller", "SIGCHLD", "SIGHUP",
    "SIGINT", "SIGQUIT", "SIGTERM", "SIGALRM">>

\* Mutant of Checked: the closure returns an Err for every call that fails.
CheckedAll(step) == TRUE

\* The calls whose result the closure looks at: `if err == -1 { return Err(..) }`
\* after setsid and `set_controlling_terminal(0)?`; libc::close and
\* libc::signal are called as statements.
Checked(step) == step \in {"setsid", "TIOCSCTTY"}

\* The closure makes its next call; ok: the call succeeds. It returns Err after
\* a failed call whose result it looks at and Ok(()) after the last call.
PreExec(ok) ==
  /\ hook.end = "none"
  /\ \E step \in {HookSteps[Len(hook.calls) + 1]} :
       hook' = [calls |-> Append(hook.calls, <<step, ok>>),
                end |-> IF ~ok /\ Checked(step) THEN "Err"
                        ELSE IF Len(hook.calls) + 1 = Len(HookSteps) THEN "Ok"
                        ELSE "none"]
  /\ UNCHANGED <<ptyVars, sbVars>>

\* The closure has returned Ok(()): the child goes on to exec the command.
Exec ==
  /\ hook.end = "Ok"
  /\ hook' = [hook EXCEPT !.end = "exec"]
  /\ UNCHANGED <<ptyVars, sbVars>>

PreExecNext == (\E ok \in BOOLEAN : PreExec(ok)) \/ Exec
PreExecSpec == Init /\ [][PreExecNext]_vars

(* ======================================================================= *)
(*  src/sandbox.rs: the syscall decoder, the rules and the ptrace tracer   *)
(* ======================================================================= *)
\* Strings are sequences of characters, so that str::starts_with is the prefix
\* relation on characters, as in the code, and not on path components.
StartsWith(s, pre) == Len(pre) <= Len(s) /\ SubSeq(s, 1, Len(pre)) = pre
NUL == "NUL"

\* Result<T>: Ok(val) or Err(err), err being the context of the failed call.
ROk(v) == [ok |-> TRUE, val |-> v, err |-> "", cause |-> None]
RErr(e) == [ok |-> FALSE, val |-> <<>>, err |-> e, cause |-> None]

\* A 64-bit register as two signed 32-bit halves.
Reg(hi, lo) == [hi |-> hi, lo |-> lo]
U(n) == Reg(0, n)
AT_FDCWD == Reg(0, -100)
AT_FDCWD64 == Reg(-1, -100)
ENOSYS == 38
\* (-(Error::ENOSYS as i32)) as u64: rax at a syscall-entry-stop.
NegENOSYS == Reg(-1, 0 - ENOSYS)
\* OFlag::O_ACCMODE, O_WRONLY, O_RDWR and two flags outside the access mode.
O_ACCMODE == 3
O_WRONLY == 1
O_RDWR == 2
O_CREAT == 64
O_TRUNC == 512

\* read_path reads words of ALIGNMENT + 1 bytes and gives up at PathMax bytes.
ALIGNMENT == 7
PathMax == 8192

(* ------------------------- the tracee's side --------------------------- *)
\* The tracee's cwd (/proc/pid/cwd) and the directories its descriptors refer to
\* (/proc/pid/fd/N): descriptor 3 is a directory, no other number is open on one.
Cwd == <<"/", "w">>
DirFd == 3
DirOf == [n \in {DirFd} |-> <<"/", "d">>]

\* The tracee's memory: the NUL-terminated strings it passes as path arguments
\* (one at an unaligned address, one across a word boundary, one of 8200 bytes:
\* s repeated n times), and two struct open_how (the second at an unaligned
\* address). Every other byte of the mapped range is 0; addresses outside it
\* are not mapped.
Strs ==
  <<[at |-> 4096, s |-> <<"r">>, n |-> 1],
    [at |-> 4098, s |-> <<"r", "x">>, n |-> 1],
    [at |-> 4101, s |-> <<"/", "d", "/", "r">>, n |-> 1],
    [at |-> 8192, s |-> <<"a">>, n |-> 8200]>>
Hows == <<[at |-> 4112, flags |-> O_WRONLY + O_CREAT], [at |-> 4122, flags |-> 0]>>
Mapped(a) == a \in 4096..16399
InStr(a, i) == a >= Strs[i].at /\ a < Strs[i].at + Len(Strs[i].s) * Strs[i].n
Byte(a) ==
  IF \E i \in 1..Len(Strs) : InStr(a, i)
  THEN The({Strs[i].s[((a - Strs[i].at) % Len(Strs[i].s)) + 1] :
              i \in {j \in 1..Len(Strs) : InStr(a, j)}})
  ELSE NUL

(* ------------------------------ read_path ------------------------------ *)
\* The `while buf.len() < 8_192` loop, turn by turn (k = 0, 1, ..): each turn
\* reads the word at addr + 8k (one ptrace::read) from its offset on, the offset
\* being that of the address in the first turn and 0 afterwards.
TurnOffset(offset, k) == IF k = 0 THEN offset ELSE 0
\* buf.len() at the head of turn k, no NUL having been found before.
TurnLen(offset, k) == IF k = 0 THEN 0 ELSE k * (ALIGNMENT + 1) - offset
\* Turn k is the last one: the loop condition fails, the read fails, or the
\* word holds a NUL at or after the offset.
LoopEnds(addr, offset, k) ==
  \/ TurnLen(offset, k) >= PathMax
  \/ ~Mapped(addr + k * (ALIGNMENT + 1))
  \/ \E i \in TurnOffset(offset, k)..ALIGNMENT : Byte(addr + k * (ALIGNMENT + 1) + i) = NUL
\* What the loop leaves with in turn k, its last turn.
LoopResult(addr, offset, k) ==
  IF TurnLen(offset, k) >= PathMax THEN RErr("path exceeds MAX_PATH")
  ELSE IF ~Mapped(addr + k * (ALIGNMENT + 1)) THEN RErr("failed to read string")
  ELSE ROk([i \in 1..(TurnLen(offset, k)
                       + Min({j \in TurnOffset(offset, k)..ALIGNMENT :
                                Byte(addr + k * (ALIGNMENT + 1) + j) = NUL})
                       - TurnOffset(offset, k))
            |-> Byte(addr + offset + i - 1)])
ReadWords(addr, offset) ==
  LoopResult(addr, offset,
             CHOOSE k \in 0..(PathMax \div (ALIGNMENT + 1) + 1) :
               /\ LoopEnds(addr, offset, k)
               /\ \A m \in 0..(k - 1) : ~LoopEnds(addr, offset, m))

\* read_path(pid, addr): the address is rounded down to a word, the first word
\* is read from the offset on.
read_path(reg) ==
  IF reg.hi # 0 \/ reg.lo < 0 THEN RErr("failed to read string")
  ELSE ReadWords(reg.lo - (reg.lo % (ALIGNMENT + 1)), reg.lo % (ALIGNMENT + 1))

get_cwd == ROk(Cwd)
\* get_fd_path(pid, fd): read_link fails for a number that is not open.
get_fd_path(fd) ==
  IF fd \in DOMAIN DirOf THEN ROk(DirOf[fd]) ELSE RErr("get path: /proc/pid/fd")

\* PathBuf::push / Path::join: an absolute argument replaces the path.
Push(base, p) ==
  IF p # <<>> /\ p[1] = "/" THEN p
  ELSE IF base # <<>> /\ base[Len(base)] = "/" THEN base \o p
  ELSE base \o <<"/">> \o p

\* `let mut path = get_cwd(pid)?; path.push(read_path(pid, reg)?);`
Joined(base, path) ==
  The({IF ~d.ok THEN d ELSE IF ~r.ok THEN r ELSE ROk(Push(d.val, r.val))
       : d \in {base}, r \in {path}})
CwdPath(reg) == Joined(get_cwd, read_path(reg))

\* `match dirfd { AT_FDCWD64 | AT_FDCWD => get_cwd(pid)?, dirfd =>
\* get_fd_path(pid, dirfd as i32)? }` followed by push(read_path(pid, reg)?).
DirPath(dirfd, reg) ==
  Joined(IF dirfd \in {AT_FDCWD64, AT_FDCWD} THEN get_cwd ELSE get_fd_path(dirfd.lo),
         read_path(reg))

(* -------------------------- rules and syscalls ------------------------- *)
Rule(operation, prefixes, exclude_prefixes, message) ==
  [operation |-> operation, prefixes |-> prefixes,
   exclude_prefixes |-> exclude_prefixes, message |-> message]

W_R == <<"/", "w", "/", "r">>
W_RX == <<"/", "w", "/", "r", "x">>
D_R == <<"/", "d", "/", "r">>

\* The rule lists install_sandbox is given: none; the shape of the list of the
\* tests (a Modify rule with an exclude, a Delete rule); a list in which two
\* rules apply to one path and a Delete rule comes last.
RuleSets ==
  {<<>>,
   <<Rule("Modify", <<W_R>>, Some(<<W_RX>>), "m1"),
     Rule("Delete", <<<<"/", "d", "/">>>>, None, "m2")>>,
   <<Rule("Modify", <<D_R>>, None, "m1"),
     Rule("Modify", <<<<"/", "x">>, <<"/">>>>, Some(<<>>), "m2"),
     Rule("Delete", <<W_R>>, None, "m3")>>}

\* The registers at the entry of a syscall.
Regs(sysno, rdi, rsi, rdx, r10) ==
  [orig_rax |-> sysno, rax |-> NegENOSYS, rdi |-> rdi, rsi |-> rsi, rdx |-> rdx,
   r10 |-> r10]
NoRegs == [Regs("none", U(0), U(0), U(0), U(0)) EXCEPT !.rax = U(0)]

\* Addresses in the tracee's memory: of the strings "r", "rx", "/d/r" and the
\* long one, NULL, and of the two struct open_how.
Addr ==
  [r |-> U(Strs[1].at), rx |-> U(Strs[2].at), dr |-> U(Strs[3].at),
   long |-> U(Strs[4].at), null |-> U(0),
   how_w |-> U(Hows[1].at), how_r |-> U(Hows[2].at)]

\* The syscalls the original tracee issues, and those of its descendant.
MainCalls ==
  {Regs("open", Addr.r, U(0), U(0), U(0)),
   Regs("open", Addr.r, U(O_WRONLY), U(0), U(0)),
   Regs("open", Addr.rx, U(O_RDWR + O_CREAT), U(0), U(0)),
   Regs("open", Addr.r, U(O_ACCMODE + O_TRUNC), U(0), U(0)),
   Regs("open", Addr.null, U(O_WRONLY), U(0), U(0)),
   Regs("openat", AT_FDCWD, Addr.r, U(O_WRONLY), U(0)),
   Regs("openat", AT_FDCWD64, Addr.rx, U(O_RDWR), U(0)),
   Regs("openat", U(DirFd), Addr.r, U(O_RDWR), U(0)),
   Regs("openat", U(DirFd), Addr.r, U(O_CREAT), U(0)),
   Regs("openat2", AT_FDCWD, Addr.r, Addr.how_w, U(24)),
   Regs("openat2", AT_FDCWD, Addr.r, Addr.how_r, U(24)),
   Regs("rename", Addr.r, Addr.dr, U(0), U(0)),
   Regs("renameat", AT_FDCWD, Addr.r, U(DirFd), Addr.rx),
   Regs("renameat2", U(DirFd), Addr.r, AT_FDCWD64, Addr.r),
   Regs("unlinkat", U(DirFd), Addr.r, U(0), U(0)),
   Regs("unlink", Addr.rx, U(0), U(0), U(0)),
   Regs("link", Addr.dr, Addr.r, U(0), U(0)),
   Regs("symlink", Addr.dr, Addr.r, U(0), U(0)),
   Regs("linkat", AT_FDCWD, Addr.rx, U(DirFd), Addr.r),
   Regs("symlinkat", Addr.rx, U(DirFd), Addr.r, U(0)),
   Regs("unlink", Addr.long, U(0), U(0), U(0)),
   Regs("write", U(1), Addr.r, U(1), U(0)),
   Regs("unknown", U(0), U(0), U(0), U(0))}
SubCalls ==
  {Regs("open", Addr.r, U(O_WRONLY), U(0), U(0)),
   Regs("unlinkat", U(DirFd), Addr.r, U(0), U(0)),
   Regs("write", U(1), Addr.r, U(1), U(0))}

(* ------------------------- get_syscall_targets ------------------------- *)
SyscallTarget(operation, sysno, path) ==
  [operation |-> operation, sysno |-> sysno, path |-> path]

\* `(flags & OFlag::O_ACCMODE.bits() as u64) as c_int` of a register.
accmode(reg) == reg.lo % (O_ACCMODE + 1)

\* An arm that returns one target for the path r.
One(operation, sysno, r) ==
  IF r.ok THEN ROk(<<SyscallTarget(operation, sysno, r.val)>>) ELSE r

\* The open arms: the path is resolved first, then the access mode is tested.
OpenArm(sysno, r, flags) ==
  IF ~r.ok THEN r
  ELSE IF accmode(flags) # O_WRONLY /\ accmode(flags) # O_RDWR THEN ROk(<<>>)
  ELSE One("Modify", sysno, r)

\* The link arms: both names are resolved, the new one is the target.
NewOnly(sysno, old, new) == IF ~old.ok THEN old ELSE One("Modify", sysno, new)

\* The rename arms: both names are resolved, both are targets.
\* Mutant of OldAndNew: only the new name is a target.
OldAndNewDropsOld(sysno, old, new) == NewOnly(sysno, old, new)

OldAndNew(sysno, old, new) ==
  IF ~old.ok THEN old
  ELSE IF ~new.ok THEN new
  ELSE ROk(<<SyscallTarget("Delete", sysno, old.val),
             SyscallTarget("Modify", sysno, new.val)>>)

\* Mutant of AtEntry: every stop is taken for a syscall-entry stop.
AtEntryAlways(regs) == TRUE

\* `regs.rax as i64 != -(Errno::ENOSYS as i64)` is what the decoder takes for
\* "not a syscall-entry stop".
AtEntry(regs) == regs.rax = NegENOSYS

\* get_syscall_targets(pid). gone: the tracee is no longer there (ESRCH).
get_syscall_targets(regs, gone) ==
  IF gone THEN RErr("ptrace::getregs")
  ELSE IF ~AtEntry(regs) THEN ROk(<<>>)
  ELSE
    CASE regs.orig_rax = "open" -> OpenArm("open", CwdPath(regs.rdi), regs.rsi)
      [] regs.orig_rax = "truncate" -> One("Modify", "truncate", CwdPath(regs.rdi))
      [] regs.orig_rax = "rmdir" -> One("Delete", "rmdir", CwdPath(regs.rdi))
      [] regs.orig_rax = "rename" ->
           OldAndNew("rename", CwdPath(regs.rdi), CwdPath(regs.rsi))
      [] regs.orig_rax = "creat" -> One("Modify", "creat", CwdPath(regs.rdi))
      [] regs.orig_rax = "link" ->
           NewOnly("link", CwdPath(regs.rdi), CwdPath(regs.rsi))
      [] regs.orig_rax = "unlink" -> One("Delete", "unlink", CwdPath(regs.rdi))
      [] regs.orig_rax = "symlink" ->
           NewOnly("symlink", CwdPath(regs.rdi), CwdPath(regs.rsi))
      [] regs.orig_rax = "openat" ->
           OpenArm("openat", DirPath(regs.rdi, regs.rsi), regs.rdx)
      [] regs.orig_rax = "unlinkat" ->
           One("Delete", "unlinkat", DirPath(regs.rdi, regs.rsi))
      [] regs.orig_rax = "renameat" ->
           OldAndNew("renameat", DirPath(regs.rdi, regs.rsi), DirPath(regs.rdx, regs.r10))
      [] regs.orig_rax = "linkat" ->
           NewOnly("linkat", DirPath(regs.rdi, regs.rsi), DirPath(regs.rdx, regs.rsi))
      [] regs.orig_rax = "symlinkat" ->
           NewOnly("symlinkat", DirPath(regs.rdi, regs.rsi), DirPath(regs.rdx, regs.r10))
      [] regs.orig_rax = "renameat2" ->
           OldAndNew("renameat2", DirPath(regs.rdi, regs.rsi), DirPath(regs.rdx, regs.r10))
      [] regs.orig_rax = "openat2" ->
           OpenArm("openat2", DirPath(regs.rdi, regs.rsi), regs.rdx)
      [] OTHER -> ROk(<<>>)

(* ---------------------------- handle_syscall --------------------------- *)
SandboxError(sysno, message, path) ==
  [sysno |-> sysno, message |-> message, path |-> path]
SErr(e) == [ok |-> FALSE, val |-> <<>>, err |-> "SandboxError", cause |-> Some(e)]

\* Mutant of RuleApplies: the exclude prefixes are not looked at.
RuleAppliesNoExclude(rule, target) ==
  /\ target.operation = rule.operation
  /\ \E i \in 1..Len(rule.prefixes) : StartsWith(target.path, rule.prefixes[i])

\* The body of `for rule in &options.rules` gets past its three `continue`s.
RuleApplies(rule, target) ==
  /\ target.operation = rule.operation
  /\ \E i \in 1..Len(rule.prefixes) : StartsWith(target.path, rule.prefixes[i])
  /\ ~ /\ rule.exclude_prefixes # None
       /\ \E i \in 1..Len(The(rule.exclude_prefixes)) :
            StartsWith(target.path, The(rule.exclude_prefixes)[i])

\* Mutant of RuleOrder: the rules are tried from the last one to the first.
RuleOrderReversed(rules) == [i \in 1..Len(rules) |-> Len(rules) + 1 - i]

\* The order in which `for rule in &options.rules` visits the indices.
RuleOrder(rules) == [i \in 1..Len(rules) |-> i]

\* The inner loop from its k-th turn on: the first rule that applies, if any.
RECURSIVE FirstRule(_, _, _)
FirstRule(rules, k, target) ==
  IF k > Len(rules) THEN None
  ELSE LET rule == rules[RuleOrder(rules)[k]]
       IN  IF RuleApplies(rule, target) THEN Some(rule)
           ELSE FirstRule(rules, k + 1, target)

\* The outer loop from its j-th target on: Err at the first target a rule applies to.
RECURSIVE CheckTargets(_, _, _)
CheckTargets(targets, j, rules) ==
  IF j > Len(targets) THEN ROk(<<>>)
  ELSE LET rule == FirstRule(rules, 1, targets[j])
       IN  IF rule # None
           THEN SErr(SandboxError(targets[j].sysno, The(rule).message, targets[j].path))
           ELSE CheckTargets(targets, j + 1, rules)

\* get_syscall_targets(pid) as it is called: the targets for the registers of
\* the calls that the tracees issue are computed once.
Decoded == [c \in MainCalls \cup SubCalls |-> get_syscall_targets(c, FALSE)]
Targets(regs, gone) ==
  IF ~gone /\ regs \in DOMAIN Decoded THEN Decoded[regs]
  ELSE get_syscall_targets(regs, gone)

handle_syscall(regs, gone, opts) ==
  The({IF ~t.ok THEN t ELSE CheckTargets(t.val, 1, opts.rules)
       : t \in {Targets(regs, gone)}})

(* ------------------------- the traced processes ------------------------ *)
\* main_pid, the child install_sandbox forks, and one descendant of it.
Main == 1
Sub == 2
Pids == {Main, Sub}
CallsOf(p) == IF p = Main THEN MainCalls ELSE SubCalls

SIGTRAP == 5
SIGKILL == 9
SIGTERM == 15
SIGCHLD == 17
SIGSTOP == 19
\* Exit codes of the tracees: success, and the code the tracer itself uses for
\* a rule violation (a tracee may call exit with any code).
TraceeCodes == {0, 254}

\* st: "none" (not created), "pre" (forked, before raise(SIGSTOP)), "run",
\* "stop" (ptrace-stop; why: "signal", "sys_entry", "sys_exit", "fork_event",
\* "exit_event"), "insys" (the kernel carries out the syscall), "exited",
\* "signaled". rep: wait() has returned this stop or death to the tracer.
\* n: the signal of a stop or a death, or the exit code. by: what killed it.
Proc(st, why, rep, regs, n, by) ==
  [st |-> st, why |-> why, rep |-> rep, regs |-> regs, n |-> n, by |-> by]
NoProc == Proc("none", "", FALSE, NoRegs, 0, "")
Live(pr) == pr.st \in {"pre", "run", "stop", "insys"}
Dead(pr) == pr.st \in {"exited", "signaled"}
Died(pr, sig, by) == [pr EXCEPT !.st = "signaled", !.rep = FALSE, !.n = sig, !.by = by]

\* The WaitStatus wait() decodes for a process that has something to report.
WaitStatus(pr) ==
  CASE pr.st = "exited" -> "Exited"
    [] pr.st = "signaled" -> "Signaled"
    [] pr.st = "stop" /\ pr.why \in {"sys_entry", "sys_exit"} -> "PtraceSyscall"
    [] pr.st = "stop" /\ pr.why \in {"fork_event", "exit_event"} -> "PtraceEvent"
    [] pr.st = "stop" /\ pr.why \in {"signal", "attach"} -> "Stopped"
    [] OTHER -> "StillAlive"
\* wait() can return status for p: p is a tracee and has something new.
Reports(p, status) ==
  ~procs[p].rep /\ procs[p].why # "untraced" /\ WaitStatus(procs[p]) = status

\* The tracer process exists: from the fork of install_sandbox to its _exit.
TracerAlive == tpc \in {"setup", "waitpid", "setoptions", "resume", "loop"}

\* A tracee enters a syscall: syscall-entry-stop. A process that is not traced
\* does not stop: the kernel carries the call out and the process runs on, regs
\* being the call it has made.
TraceeSyscall(p, c) ==
  /\ TracerAlive
  /\ procs[p].st = "run"
  /\ c \in CallsOf(p)
  /\ procs' = [procs EXCEPT ![p] =
                 IF @.why = "untraced" THEN [procs[p] EXCEPT !.regs = c]
                 ELSE Proc("stop", "sys_entry", FALSE, c, 0, "")]
  /\ UNCHANGED <<options, tpc, status_code, stderr, tracer, ptyVars, hook>>

\* The syscalls that the kernel the tracee runs on may lack (openat2 came with
\* Linux 5.6, renameat2 with 3.15), and the number that is no syscall: these
\* return -ENOSYS.
Returns(regs) ==
  {U(0)} \cup (IF regs.orig_rax \in {"openat2", "renameat2", "unknown"}
               THEN {NegENOSYS} ELSE {})

\* The kernel has carried out the syscall of a resumed tracee: syscall-exit-stop
\* with the return value in rax.
SyscallReturns(p, ret) ==
  /\ TracerAlive
  /\ procs[p].st = "insys"
  /\ ret \in Returns(procs[p].regs)
  /\ procs' = [procs EXCEPT ![p] =
                 Proc("stop", "sys_exit", FALSE, [@.regs EXCEPT !.rax = ret], 0, "")]
  /\ UNCHANGED <<options, tpc, status_code, stderr, tracer, ptyVars, hook>>

\* The original tracee forks (fork, vfork, or clone): with PTRACE_O_TRACEFORK,
\* TRACEVFORK and TRACECLONE set on it, it stops with a PTRACE_EVENT, the new
\* process is attached with its parent's options and starts with a SIGSTOP.
TraceeFork ==
  /\ TracerAlive
  /\ procs[Main].st = "run"
  /\ procs[Sub].st = "none"
  /\ Main \in tracer.traced
  /\ procs' = [procs EXCEPT ![Main] = Proc("stop", "fork_event", FALSE, NoRegs, 0, ""),
                            ![Sub] = Proc("stop", "attach", FALSE, NoRegs, SIGSTOP, "")]
  /\ tracer' = [tracer EXCEPT !.traced = @ \cup {Sub}]
  /\ UNCHANGED <<options, tpc, status_code, stderr, ptyVars, hook>>

\* The original tracee calls clone with CLONE_UNTRACED: the kernel reports no
\* PTRACE_EVENT for such a clone and does not attach the new process.
TraceeCloneUntraced ==
  /\ TracerAlive
  /\ procs[Main].st = "run"
  /\ procs[Sub].st = "none"
  /\ procs' = [procs EXCEPT ![Sub] = Proc("run", "untraced", TRUE, NoRegs, 0, "")]
  /\ UNCHANGED <<options, tpc, status_code, stderr, tracer, ptyVars, hook>>

\* A tracee calls exit(code): it stops with a PTRACE_EVENT_EXIT first.
TraceeExits(p, code) ==
  /\ TracerAlive
  /\ procs[p].st = "run"
  /\ procs' = [procs EXCEPT ![p] =
                 IF @.why = "untraced" THEN [procs[p] EXCEPT !.st = "exited", !.n = code]
                 ELSE Proc("stop", "exit_event", FALSE, NoRegs, code, "")]
  /\ UNCHANGED <<options, tpc, status_code, stderr, tracer, ptyVars, hook>>

\* A signal is about to be delivered to a tracee: signal-delivery-stop. SIGTRAP
\* is also what a tracee gets when it has called execve.
TraceeSignal(p, sig) ==
  /\ TracerAlive
  /\ procs[p].st = "run" /\ procs[p].why # "untraced"
  /\ procs' = [procs EXCEPT ![p] = Proc("stop", "signal", FALSE, NoRegs, sig, "")]
  /\ UNCHANGED <<options, tpc, status_code, stderr, tracer, ptyVars, hook>>

\* Something outside the sandbox sends SIGKILL to a tracee, stopped or not.
TraceeKilled(p) ==
  /\ TracerAlive
  /\ Live(procs[p])
  /\ procs' = [procs EXCEPT ![p] =
                 [Died(@, SIGKILL, "SIGKILL") EXCEPT !.rep = (procs[p].why = "untraced")]]
  /\ UNCHANGED <<options, tpc, status_code, stderr, tracer, ptyVars, hook>>

(* ------------------------------ the tracer ----------------------------- *)
\* Faults of a turn of the supervision loop: "gone": the tracee wait() reported
\* is killed (SIGKILL) before the tracer's first ptrace request on it; "EIO":
\* the ptrace::syscall that resumes it fails with an errno other than ESRCH.
Faults == {"none", "gone", "EIO"}

\* The processes as the handler of a wait() status for p finds them.
Reported(ps, p, fault) ==
  IF fault = "gone" /\ Live(ps[p])
  THEN [ps EXCEPT ![p] = Died(ps[p], SIGKILL, "SIGKILL")]
  ELSE [ps EXCEPT ![p].rep = TRUE]

\* What a stopped tracee does when it is resumed with PTRACE_SYSCALL and sig.
Resumed(pr, sig) ==
  CASE pr.why = "sys_entry" -> [pr EXCEPT !.st = "insys", !.rep = FALSE]
    [] pr.why = "exit_event" -> [pr EXCEPT !.st = "exited", !.rep = FALSE]
    [] pr.why = "signal" /\ sig # None -> Died(pr, The(sig), "signal")
    [] OTHER -> Proc("run", "", FALSE, NoRegs, 0, "")

\* `match ptrace::syscall(pid, sig) { Ok(_) => {} Err(Error::ESRCH) => {}
\*  Err(err) => return Err(..) }`: Ok(the processes after it), or the Err returned.
ptrace_syscall(ps, p, sig, fault) ==
  IF ps[p].st # "stop" THEN ROk(ps)
  ELSE IF fault = "EIO" THEN RErr("failed to continue process")
  ELSE ROk([ps EXCEPT ![p] = Resumed(ps[p], sig)])

\* `match ptrace::kill(pid) { .. }`: no outcome of it is returned.
ptrace_kill(ps, p) ==
  IF Live(ps[p]) THEN [ps EXCEPT ![p] = Died(ps[p], SIGKILL, "ptrace::kill")] ELSE ps

\* PTRACE_O_EXITKILL: when the tracer exits, every tracee left that has the
\* ptrace options gets SIGKILL.
ExitKill(ps) ==
  [p \in DOMAIN ps |->
     IF p \in tracer.traced /\ ps[p].st \in {"run", "stop", "insys"}
     THEN Died(ps[p], SIGKILL, "EXITKILL")
     ELSE ps[p]]

\* install_sandbox, tracer side: the status run_parent's result is turned into.
\* Mutant of StatusCode: a rule violation is reported like any other error.
StatusCodeGeneric(r) == IF r.ok THEN r.val ELSE 1

\* Mutant of StatusCode: every error of run_parent is reported as a violation.
StatusCodeAllViolations(r) == IF r.ok THEN r.val ELSE 254

StatusCode(r) == IF r.ok THEN r.val ELSE IF r.cause # None THEN 254 ELSE 1

\* ... and what it prints to stderr for it.
Printed(r) ==
  IF r.ok THEN None
  ELSE IF r.cause # None
       THEN Some([kind |-> "SandboxError", message |-> The(r.cause).message,
                  path |-> The(r.cause).path])
       ELSE Some([kind |-> "run process", message |-> r.err, path |-> <<>>])

\* run_parent returns r and the tracer calls _exit.
Return(r, ps) ==
  /\ tpc' = "exited"
  /\ status_code' = Some(StatusCode(r))
  /\ stderr' = Printed(r)
  /\ procs' = ExitKill(ps)

\* The end of an arm of the loop: the Err of ptrace::syscall is returned, or the
\* loop goes on to the next wait().
Resume(ps, p, sig, fault) ==
  \E r \in {ptrace_syscall(ps, p, sig, fault)} :
    IF r.ok
    THEN /\ procs' = r.val
         /\ UNCHANGED <<tpc, status_code, stderr>>
    ELSE Return(r, ps)

\* install_sandbox(options) up to the fork: an Err before it goes to the caller.
InstallFails == {"none", "signal", "sigprocmask", "fork"}
\* The tracer starts with the descriptors of the process that calls
\* install_sandbox: the stdio descriptors and one more (0..3).
InstallSandbox(rules, fail) ==
  /\ tpc = "idle"
  /\ options' = [rules |-> rules]
  /\ IF fail = "none"
     THEN /\ tpc' = "setup"
          /\ procs' = [p \in Pids |->
                         IF p = Main THEN Proc("pre", "", FALSE, NoRegs, 0, "") ELSE NoProc]
          /\ tracer' = [tracer EXCEPT !.fds = 0..3]
     ELSE /\ tpc' = "failed"
          /\ UNCHANGED <<procs, tracer>>
  /\ UNCHANGED <<status_code, stderr, ptyVars, hook>>

\* install_sandbox, child side: ptrace::traceme() and raise(SIGSTOP).
\* Mutant of Traceme: raise(SIGSTOP) does not stop the tracee.
TracemeNoStop ==
  /\ tpc \in {"setup", "waitpid"}
  /\ procs[Main].st = "pre"
  /\ procs' = [procs EXCEPT ![Main] = Proc("run", "", FALSE, NoRegs, 0, "")]
  /\ UNCHANGED <<options, tpc, status_code, stderr, tracer, ptyVars, hook>>

Traceme ==
  /\ tpc \in {"setup", "waitpid"}
  /\ procs[Main].st = "pre"
  /\ procs' = [procs EXCEPT ![Main] = Proc("stop", "attach", FALSE, NoRegs, SIGSTOP, "")]
  /\ UNCHANGED <<options, tpc, status_code, stderr, tracer, ptyVars, hook>>

\* Mutant of SetupOrder: the handlers are installed before the pid is stored.
SetupOrderHandlersFirst == <<"set_name", "signal", "CHILD_PID", "close_range">>

\* run_parent up to the waitpid: set_name, `CHILD_PID = main_pid`, the signal
\* handlers, the two close_range calls.
SetupOrder == <<"set_name", "CHILD_PID", "signal", "close_range">>

\* One step of the set-up. fail: the step's call fails (set_name and the store
\* cannot); an Err of signal() is returned. `libc::syscall(SYS_close_range, 0,
\* 1, 0); libc::syscall(SYS_close_range, 3, c_uint::MAX, 0);` leave descriptor
\* 2; where the kernel has no close_range (ENOSYS) nothing is closed, and the
\* results are not looked at.
RunParentSetup(fail) ==
  /\ tpc = "setup"
  /\ \E step \in {SetupOrder[tracer.step]} :
       IF step = "signal" /\ fail
       THEN /\ Return(RErr("failed to install signal handler"), procs)
            /\ UNCHANGED tracer
       ELSE /\ step \in {"set_name", "CHILD_PID"} => ~fail
            /\ tracer' =
                 [tracer EXCEPT
                    !.step = @ + 1,
                    !.CHILD_PID = IF step = "CHILD_PID" THEN Main ELSE @,
                    !.handlers = IF step = "signal" THEN TRUE ELSE @,
                    !.fds = IF step = "close_range" /\ ~fail THEN @ \cap {2} ELSE @]
            /\ tpc' = (IF tracer.step = Len(SetupOrder) THEN "waitpid" ELSE "setup")
            /\ UNCHANGED <<procs, status_code, stderr>>
  /\ UNCHANGED <<options, ptyVars, hook>>

\* `if signum == SIGKILL || signum == SIGCHLD || signum == SIGSTOP { continue; }`
Handled(sig) == sig \notin {SIGKILL, SIGCHLD, SIGSTOP}

\* kill(pid, sig) as forward_signal calls it: a running tracee that gets the
\* signal enters a signal-delivery-stop; pid -1 stands for every process.
kill(ps, pid, sig) ==
  [p \in DOMAIN ps |->
     IF (pid = p \/ pid = 0 - 1) /\ ps[p].st = "run" /\ ps[p].why # "untraced"
     THEN Proc("stop", "signal", FALSE, NoRegs, sig, "")
     ELSE ps[p]]

\* The tracer gets a signal while forward_signal is installed: forward_signal
\* runs for the signals it was installed for; SIGCHLD keeps its default (ignore).
TracerSignal(sig) ==
  /\ TracerAlive
  /\ tracer.handlers
  /\ IF Handled(sig)
     THEN /\ tracer' = [tracer EXCEPT !.signals =
                          @ \cup {[sig |-> sig, to |-> Some(tracer.CHILD_PID)]}]
          /\ procs' = kill(procs, tracer.CHILD_PID, sig)
     ELSE /\ tracer' = [tracer EXCEPT !.signals = @ \cup {[sig |-> sig, to |-> None]}]
          /\ UNCHANGED procs
  /\ UNCHANGED <<options, tpc, status_code, stderr, ptyVars, hook>>

\* The status run_parent returns for the original tracee's Exited or Signaled.
ExitStatus(pr) == IF pr.st = "exited" THEN pr.n ELSE 128 + pr.n

\* `match waitpid(main_pid, None)..? { Exited => return, Signaled => return, _ => {} }`
Waitpid(fail) ==
  /\ tpc = "waitpid"
  /\ IF fail
     THEN Return(RErr("waitpid"), procs)
     ELSE /\ ~procs[Main].rep
          /\ WaitStatus(procs[Main]) # "StillAlive"
          /\ IF Dead(procs[Main])
             THEN Return(ROk(ExitStatus(procs[Main])), [procs EXCEPT ![Main].rep = TRUE])
             ELSE /\ procs' = [procs EXCEPT ![Main].rep = TRUE]
                  /\ tpc' = "setoptions"
                  /\ UNCHANGED <<status_code, stderr>>
  /\ UNCHANGED <<options, tracer, ptyVars, hook>>

\* `match ptrace::setoptions(main_pid, ..) { Ok, Err(ESRCH) => return Ok(0), Err => return Err }`
Setoptions(fail) ==
  /\ tpc = "setoptions"
  /\ IF procs[Main].st # "stop" THEN Return(ROk(0), procs)
     ELSE IF fail THEN Return(RErr("ptrace::setoptions"), procs)
     ELSE /\ tpc' = "resume"
          /\ UNCHANGED <<procs, status_code, stderr>>
  /\ tracer' = [tracer EXCEPT !.traced =
                  IF procs[Main].st = "stop" /\ ~fail THEN @ \cup {Main} ELSE @]
  /\ UNCHANGED <<options, ptyVars, hook>>

\* `ptrace::syscall(main_pid, None).context("Failed continue process")?`
FirstResume(fail) ==
  /\ tpc = "resume"
  /\ IF procs[Main].st # "stop" \/ fail
     THEN Return(RErr("Failed continue process"), procs)
     ELSE /\ procs' = [procs EXCEPT ![Main] = Resumed(procs[Main], None)]
          /\ tpc' = "loop"
          /\ UNCHANGED <<status_code, stderr>>
  /\ UNCHANGED <<options, tracer, ptyVars, hook>>

\* The arms of `match wait()` in the supervision loop, one action per arm.
\* Stopped(pid, SIGTRAP) and PtraceSyscall(pid): handle_syscall, then resume or
\* kill and return the error.
Inspect(p, fault) ==
  \E ps \in {Reported(procs, p, fault)} :
    \E h \in {handle_syscall(procs[p].regs, Dead(ps[p]), options)} :
      IF h.ok THEN Resume(ps, p, None, fault) ELSE Return(h, ptrace_kill(ps, p))

OnSigtrap(p, fault) ==
  /\ tpc = "loop"
  /\ Reports(p, "Stopped") /\ procs[p].n = SIGTRAP
  /\ Inspect(p, fault)
  /\ UNCHANGED <<options, tracer, ptyVars, hook>>

OnPtraceSyscall(p, fault) ==
  /\ tpc = "loop"
  /\ Reports(p, "PtraceSyscall")
  /\ Inspect(p, fault)
  /\ UNCHANGED <<options, tracer, ptyVars, hook>>

\* Stopped(pid, SIGSTOP): `ptrace::setoptions(pid, ..).context("setoptions")?`,
\* then the tracee is resumed without the signal.
OnSigstop(p, fault) ==
  /\ tpc = "loop"
  /\ Reports(p, "Stopped") /\ procs[p].n = SIGSTOP
  /\ \E ps \in {Reported(procs, p, fault)} :
       IF Dead(ps[p]) THEN Return(RErr("setoptions"), ps) /\ UNCHANGED tracer
       ELSE /\ Resume(ps, p, None, fault)
            /\ tracer' = [tracer EXCEPT !.traced = @ \cup {p}]
  /\ UNCHANGED <<options, ptyVars, hook>>

\* Mutant of OnSignal: the tracee is resumed without the signal.
OnSignalDropped(p, fault) ==
  /\ tpc = "loop"
  /\ Reports(p, "Stopped") /\ procs[p].n \notin {SIGTRAP, SIGSTOP}
  /\ Resume(Reported(procs, p, fault), p, None, fault)
  /\ UNCHANGED <<options, tracer, ptyVars, hook>>

\* Stopped(pid, signum), any other signal: resumed with the signal injected.
OnSignal(p, fault) ==
  /\ tpc = "loop"
  /\ Reports(p, "Stopped") /\ procs[p].n \notin {SIGTRAP, SIGSTOP}
  /\ Resume(Reported(procs, p, fault), p, Some(procs[p].n), fault)
  /\ UNCHANGED <<options, tracer, ptyVars, hook>>

\* Mutant of OnPtraceEvent: the original tracee is resumed, as in the catch-all
\* arm, not the tracee that wait() reported.
OnPtraceEventMain(p, fault) ==
  /\ tpc = "loop"
  /\ Reports(p, "PtraceEvent")
  /\ Resume(Reported(procs, p, fault), Main, None, fault)
  /\ UNCHANGED <<options, tracer, ptyVars, hook>>

\* PtraceEvent(pid, ..): resumed. (The catch-all arm `Ok(status)` after it takes
\* Continued and StillAlive, which wait(), a waitpid without WCONTINUED and
\* WNOHANG, does not return.)
OnPtraceEvent(p, fault) ==
  /\ tpc = "loop"
  /\ Reports(p, "PtraceEvent")
  /\ Resume(Reported(procs, p, fault), p, None, fault)
  /\ UNCHANGED <<options, tracer, ptyVars, hook>>

\* Mutant of IsMain: the death of any tracee ends the tracer.
IsMainAny(pid) == TRUE

\* `if pid == main_pid`.
IsMain(pid) == pid = Main

\* Exited(pid, exit_status) and Signaled(pid, sig_num, _): the status of the
\* original tracee is returned; for another one the loop goes on (the
\* ptrace::syscall of the Signaled arm gets ESRCH: the process is dead).
OnExited(p) ==
  /\ tpc = "loop"
  /\ Reports(p, "Exited")
  /\ LET ps == [procs EXCEPT ![p].rep = TRUE]
     IN  IF IsMain(p) THEN Return(ROk(ExitStatus(procs[p])), ps)
         ELSE /\ procs' = ps
              /\ UNCHANGED <<tpc, status_code, stderr>>
  /\ UNCHANGED <<options, tracer, ptyVars, hook>>

OnSignaled(p) ==
  /\ tpc = "loop"
  /\ Reports(p, "Signaled")
  /\ LET ps == [procs EXCEPT ![p].rep = TRUE]
     IN  IF IsMain(p) THEN Return(ROk(ExitStatus(procs[p])), ps)
         ELSE Resume(ps, p, Some(procs[p].n), "none")
  /\ UNCHANGED <<options, tracer, ptyVars, hook>>

\* Err(ECHILD) and Err(err): wait() fails, the loop is left and run_parent
\* returns Ok(0). ECHILD is what wait() fails with when no process is left.
OnWaitErr ==
  /\ tpc = "loop"
  /\ Return(ROk(0), procs)
  /\ UNCHANGED <<options, tracer, ptyVars, hook>>

\* The closure given to catch_unwind panics: _exit(253).
Panic ==
  /\ tpc \in {"setup", "waitpid", "setoptions", "resume", "loop"}
  /\ tpc' = "exited"
  /\ status_code' = Some(253)
  /\ stderr' = Some([kind |-> "panic", message |-> "", path |-> <<>>])
  /\ procs' = ExitKill(procs)
  /\ UNCHANGED <<options, tracer, ptyVars, hook>>

SandboxNext ==
  \/ \E rules \in RuleSets, fail \in InstallFails : InstallSandbox(rules, fail)
  \/ \E fail \in BOOLEAN : RunParentSetup(fail)
  \/ \E fail \in BOOLEAN : Waitpid(fail)
  \/ \E fail \in BOOLEAN : Setoptions(fail)
  \/ \E fail \in BOOLEAN : FirstResume(fail)
  \/ \E p \in Pids, fault \in Faults : OnSigtrap(p, fault)
  \/ \E p \in Pids, fault \in Faults : OnSigstop(p, fault)
  \/ \E p \in Pids, fault \in Faults : OnSignal(p, fault)
  \/ \E p \in Pids, fault \in Faults : OnPtraceSyscall(p, fault)
  \/ \E p \in Pids, fault \in Faults : OnPtraceEvent(p, fault)
  \/ \E p \in Pids : OnExited(p)
  \/ \E p \in Pids : OnSignaled(p)
  \/ OnWaitErr
  \/ Panic
  \/ \E sig \in {SIGTERM, SIGCHLD} : TracerSignal(sig)
  \/ Traceme
  \/ \E p \in Pids : \E c \in CallsOf(p) : TraceeSyscall(p, c)
  \/ \E p \in Pids, ret \in {U(0), NegENOSYS} : SyscallReturns(p, ret)
  \/ TraceeFork
  \/ TraceeCloneUntraced
  \/ \E p \in Pids, code \in TraceeCodes : TraceeExits(p, code)
  \/ \E p \in Pids, sig \in {SIGTRAP, SIGTERM, SIGSTOP} : TraceeSignal(p, sig)
  \/ \E p \in Pids : TraceeKilled(p)

SandboxSpec == Init /\ [][SandboxNext]_vars

(* ======================================================================= *)
(*                               Claims                                    *)
(* ======================================================================= *)
Draining == rpc \in {"pidfd_open", "poll_ctrl", "poll_pidfd", "check"}
DrainLogged == {"drain_ok", "drain_err"}
IsPrefix(p, q) == Len(p) <= Len(q) /\ p = SubSeq(q, 1, Len(p))

\* C1: for a constructed Pty, on_exit is invoked at most once, exactly once when
\* the reaper thread has ended, and never while the child is still running, with
\* and without on_data.
C1_ExitOnce ==
  /\ Len(onExit) <= 1
  /\ (rpc = "done") <=> (Len(onExit) = 1)
  /\ onExit # <<>> => (phase = "ok" /\ ChildDead(child))
  /\ phase # "ok" => rpc = "none"

C1_Witness == has_on_data /\ delivered # {} /\ Len(onExit) = 1

\* C2: the arguments of on_exit follow from the result of wait: (null, 0) for a
\* successful exit, (null, code) for an unsuccessful one, (null, -1) for a death
\* by signal, and an error carrying the errno exactly when wait failed.
C2_ExitValue ==
  onExit # <<>> =>
    LET a == onExit[1]
        r == The(waitRes)
    IN  /\ (a.err # None) <=> (r.kind = "error")
        /\ r.kind = "error" =>
             /\ a.err = Some(Msg("OS error when waiting for child process to exit: ",
                                 Some(r.n)))
             /\ r.n \in WaitErrnos
        /\ r.kind = "exited" => (r.n = child.code /\ child.st = "exited" /\ a.code = Some(r.n))
        /\ r.kind = "signaled" => (child.st = "signaled" /\ a.code = Some(-1))
        /\ (a.code = Some(0)) <=> (r.kind = "exited" /\ r.n = 0)

C2_Witness ==
  /\ onExit # <<>>
  /\ child.st = "signaled"
  /\ onExit[1] = [err |-> None, code |-> Some(-1)]

\* C3 as claimed: the reap completes before the drain is signalled done, and the
\* drain is signalled done before the exit callback.
C3_ReapThenDrain ==
  \A i \in 1..Len(log) :
    /\ log[i] \in DrainLogged => \E j \in 1..(i - 1) : log[j] = "reaped"
    /\ log[i] = "on_exit" => \E j \in 1..(i - 1) : log[j] \in DrainLogged

\* C3 amended: with on_data the drain ends first, then the reap completes, then
\* on_exit is invoked; without on_data there is no drain and the reap is followed
\* by on_exit.
C3_DrainThenReap ==
  phase = "ok" =>
    IF has_on_data
    THEN \E d \in DrainLogged : IsPrefix(log, <<d, "reaped", "on_exit">>)
    ELSE IsPrefix(log, <<"reaped", "on_exit">>)

C3_Witness == log = <<"drain_ok", "reaped", "on_exit">> /\ delivered # {}

\* C4, for every Pty: when on_exit is invoked, every byte the child wrote has been
\* delivered to the host, through on_data or through the host's own reads.
C4_NoLoss == onExit # <<>> => (1..written) \subseteq delivered

\* C4, where on_data is supplied and the drain closure returned Ok: when on_exit
\* is invoked, every byte the child wrote has been delivered to the host.
C4_NoLossDrained ==
  (onExit # <<>> /\ has_on_data /\ log[1] = "drain_ok") =>
    (1..written) \subseteq delivered

BadFdMsgs ==
  {Msg("ioctl TIOCSWINSZ failed: bad file descriptor (os error 9)", None),
   Msg("fcntl F_DUPFD_CLOEXEC failed: bad file descriptor (os error 9)", None),
   Msg("close failed: ", Some(EBADF))}
IsBadFd(r) == ~r.ok /\ r.msg \in BadFdMsgs
FdCall == Fd
ResizeCall == \E size \in Sizes : Resize(size)
CloseCall == \E closeErr \in BOOLEAN : Close(closeErr)
\* The descriptor numbers each party holds.
HandleFds == controller_fd \cup user_fd
ReaperFds == r_ctrl \cup r_pidfd

\* C6 as claimed: after one successful fd(), every later fd(), resize() and
\* close() on the handle fails.
C6_TakeOnce == [][(fdOk /\ (FdCall \/ ResizeCall \/ CloseCall)) => ~lastCall'.ok]_vars

\* C6 amended: fd() does not take the descriptor out of the handle: a successful
\* fd() leaves controller_fd in place, so fd() can succeed again and resize() and
\* close() still work; the three calls fail with a bad-descriptor error exactly
\* when close() has succeeded before.
C6_FdKeepsController ==
  [][/\ (lastCall'.ok /\ lastCall'.op = "fd" /\ FdCall) =>
          (controller_fd' = controller_fd /\ controller_fd' # None)
     /\ ((IsBadFd(lastCall') \/ closeOk) /\ (FdCall \/ ResizeCall \/ CloseCall)) =>
          (IsBadFd(lastCall') /\ closeOk)]_vars

C6_Witness ==
  /\ fdOk /\ ~closeOk
  /\ Cardinality(hostFds) >= 2
  /\ lastCall.op = "fd" /\ lastCall.ok

\* C7 as claimed: every open descriptor number handed out or held has exactly one
\* owner among the handle, the host and the reaper.
C7_OneOwner ==
  /\ hostFds \cap HandleFds = {}
  /\ hostFds \cap ReaperFds = {}
  /\ HandleFds \cap ReaperFds = {}

\* C7 amended: under node (should_dup_fds) every number handed to the host is a
\* fresh duplicate, so the handle, the host and the reaper hold disjoint, open
\* descriptors; under bun fd() hands out the handle's own number.
C7_OneOwnerNode ==
  /\ (phase = "ok" /\ should_dup_fds) =>
       /\ C7_OneOwner
       /\ \A n \in hostFds \cup controller_fd \cup r_ctrl : fds[n] = "ctrl"
       /\ \A n \in user_fd : fds[n] = "user"
  /\ (phase = "ok" /\ ~should_dup_fds) => hostFds \subseteq controller_fd \/ closeOk

C7_Witness ==
  /\ should_dup_fds /\ hostFds # {} /\ controller_fd # None /\ r_ctrl # None

\* C8: once close() has succeeded, every resize() and fd() fails with the
\* "bad file descriptor (os error 9)" error, issues no ioctl or fcntl, and leaves
\* the handle and the descriptor table as they were.
C8_ClosedCallsFail ==
  [][(closeOk /\ (FdCall \/ ResizeCall)) =>
       /\ IsBadFd(lastCall')
       /\ lastCall'.sys = <<>>
       /\ UNCHANGED <<handleVars, fds, hostFds>>]_vars

C8_Witness ==
  /\ closeOk /\ fdOk
  /\ lastCall = Err("resize",
                    Msg("ioctl TIOCSWINSZ failed: bad file descriptor (os error 9)", None),
                    <<>>)

\* C9 as claimed: a close() on a closed handle changes nothing and, as no
\* underlying close call is made or fails, reports no error.
C9_Idempotent ==
  [][(closeOk /\ CloseCall) => (UNCHANGED <<handleVars, fds>> /\ lastCall'.ok)]_vars

\* C9 amended: a close() on a closed handle changes nothing (both fds stay
\* dropped, nothing is closed twice) and always reports "close failed: 9"; the
\* first close() drops both fds and returns Ok whether or not the underlying
\* close calls fail.
C9_SecondCloseFails ==
  [][(lastCall'.op = "close" /\ CloseCall) =>
       /\ controller_fd' = None /\ user_fd' = None
       /\ \A n \in FdNums : fds'[n] = IF n \in HandleFds THEN "free" ELSE fds[n]
       /\ IF controller_fd = None
          THEN /\ UNCHANGED <<handleVars, fds>>
               /\ lastCall' = Err("close", Msg("close failed: ", Some(EBADF)), <<>>)
          ELSE lastCall'.ok]_vars

C9_Witness ==
  /\ closeOk
  /\ lastCall = Err("close", Msg("close failed: ", Some(EBADF)), <<>>)

\* C10 as claimed: while the reaper is draining, the handle still holds the user
\* fd and it is open.
C10_UserFdWhileDraining ==
  (phase = "ok" /\ Draining) => (user_fd # None /\ \A n \in user_fd : fds[n] = "user")

\* C10 amended: the handle holds the user fd, open, until the host calls close():
\* no step of the reaper and no fd() or resize() drops it, but a close() during
\* the drain does.
C10_UserFdUntilClose ==
  [][user_fd # None =>
       \/ user_fd' = user_fd /\ \A n \in user_fd : fds'[n] = "user"
       \/ lastCall'.op = "close" /\ lastCall'.ok /\ user_fd' = None]_vars

C10_Witness ==
  /\ log = <<"drain_ok", "reaped", "on_exit">> /\ delivered # {}
  /\ fdOk /\ user_fd # None

\* The calls named op that the last host call issued.
SysOf(r, op) == {r.sys[i] : i \in {j \in 1..Len(r.sys) : r.sys[j][1] = op}}
Spawned == child.st # "none"

\* C11: once the child has been spawned the constructor does not return an
\* error (a later failure is reported through on_exit), and every spawned child
\* has a reaper thread that waits on it.
C11_PostSpawnViaExit == Spawned => (phase = "ok" /\ rpc # "none")

\* C12: the environment the child is executed with equals the envs mapping the
\* constructor was given, and is empty when envs is absent: no variable of the
\* host's ambient environment gets into it.
C12_EnvExact ==
  lastCall.op = "new" =>
    \A e \in SysOf(lastCall, "execve") : e[3] = IF e[2] = None THEN {} ELSE The(e[2])

\* C13: a constructor call in which reading (tcgetattr) or writing (tcsetattr)
\* the controller's terminal attributes failed returns Ok all the same.
C13_TermiosTolerated ==
  lastCall.op = "new" =>
    \A op \in {"tcgetattr", "tcsetattr"} :
      \A c \in SysOf(lastCall, op) : ~c[Len(c)] => lastCall.ok

(* ------------------------------ sandbox -------------------------------- *)
\* The tracer has forked: procs holds the tracees.
Started == tpc \notin {"idle", "failed"}
Elems(seq) == {seq[i] : i \in 1..Len(seq)}
\* What the decoder yields for the registers of p's last stop.
TargetsAt(p) == Targets(procs[p].regs, FALSE)
\* The tracer has killed p with ptrace::kill.
Killed(p) == procs[p].by = "ptrace::kill"
\* The line printed for a SandboxError of rule for target.
SandboxErr(rule, target) ==
  Some([kind |-> "SandboxError", message |-> rule.message, path |-> target.path])

\* A target matches a rule, in the words of C14.
Excludes(rule) ==
  IF rule.exclude_prefixes = None THEN {} ELSE Elems(The(rule.exclude_prefixes))
Matches(rule, target) ==
  /\ target.operation = rule.operation
  /\ \E x \in Elems(rule.prefixes) : StartsWith(target.path, x)
  /\ \A x \in Excludes(rule) : ~StartsWith(target.path, x)

RulesHit(targets) ==
  {i \in 1..Len(options.rules) : \E tg \in Elems(targets) : Matches(options.rules[i], tg)}
TargetsHit(targets) ==
  {j \in 1..Len(targets) : \E r \in Elems(options.rules) : Matches(r, targets[j])}

\* C15 as claimed: the SandboxError reported for a call that matches several
\* rules carries the message of the first rule of the configured list that
\* matches a target of the call, for calls with two targets too.
C15_FirstRuleOfList ==
  Started =>
    \A p \in Pids : \A t \in {TargetsAt(p)} :
      (Killed(p) /\ status_code = Some(254) /\ RulesHit(t.val) # {}) =>
        The(stderr).message = options.rules[Min(RulesHit(t.val))].message

\* C15 amended: the targets are tried in the order the decoder gives them
\* (Delete(old) before Modify(new)), each against the rules in the configured
\* order: the SandboxError carries the path of the first target that some rule
\* matches and the message of the first rule of the list that matches that
\* target.
C15_FirstRuleOfFirstTarget ==
  Started =>
    \A p \in Pids : \A t \in {TargetsAt(p)} :
      (Killed(p) /\ status_code = Some(254) /\ TargetsHit(t.val) # {}) =>
        \A tg \in {t.val[Min(TargetsHit(t.val))]} :
          stderr = SandboxErr(options.rules[Min(RulesHit(<<tg>>))], tg)

\* A rename is stopped whose two targets match different rules, the first rule
\* of the list matching the second target only.
C15_Witness ==
  /\ Started
  /\ \E p \in Pids : \E t \in {TargetsAt(p)} :
       /\ Killed(p) /\ status_code = Some(254)
       /\ Len(t.val) = 2
       /\ Cardinality(RulesHit(t.val)) > 1
       /\ Min(RulesHit(<<t.val[1]>>)) > Min(RulesHit(<<t.val[2]>>))

\* The registers of p's last stop are those of a syscall entry whose targets
\* match a rule.
HasMatch(p) ==
  /\ procs[p].why = "sys_entry"
  /\ \E t \in {TargetsAt(p)} : TargetsHit(t.val) # {}
\* p is in the syscall-entry-stop of such a call.
AtMatch(p) == procs[p].st = "stop" /\ HasMatch(p)

StatusOf(pr) == IF pr.st = "exited" THEN pr.n ELSE 128 + pr.n
\* wait() hands the tracer the Exited or Signaled status of p in this step.
DeathReported(p) == Dead(procs[p]) /\ ~procs[p].rep /\ procs'[p].rep

NoChildLeft == \A p \in Pids : procs[p].st = "none" \/ (Dead(procs[p]) /\ procs[p].rep)

\* C18: the exit code of the tracer tells how it ended: 0 only when the
\* original tracee exited with 0 or no child is left, 1 for an error of wait or
\* ptrace that is no rule violation, 128 + signum for the tracee's death by a
\* signal, 253 for a panic, 254 for a rule violation.
C18_ExitCodeClasses ==
  (Started /\ tpc = "exited") =>
    \A s \in status_code :
      /\ s = 0 =>
           \/ procs[Main].st = "exited" /\ procs[Main].rep /\ procs[Main].n = 0
           \/ NoChildLeft
      /\ (stderr = None /\ procs[Main].st = "signaled" /\ procs[Main].rep) =>
           s = 128 + procs[Main].n
      /\ \A e \in stderr :
           s = CASE e.kind = "SandboxError" -> 254
                 [] e.kind = "panic" -> 253
                 [] OTHER -> 1

\* The open flags of a call of the open family, by the calling convention:
\* open(path, flags), openat(dirfd, path, flags), and openat2(dirfd, path, how,
\* size) with the flags in the struct open_how that how points to.
OpenFamily == {"open", "openat", "openat2"}
HowAt(a) == {Hows[i].flags : i \in {j \in 1..Len(Hows) : Hows[j].at = a}}
OpenFlagsOf(regs) ==
  CASE regs.orig_rax = "open" -> regs.rsi.lo
    [] regs.orig_rax = "openat" -> regs.rdx.lo
    [] regs.orig_rax = "openat2" -> The(HowAt(regs.rdx.lo))
OpensForWriting(flags) == flags % (O_ACCMODE + 1) \in {O_WRONLY, O_RDWR}

\* C19: for open, openat and openat2 the decoder yields one Modify target when
\* the access mode of the call's open flags is O_WRONLY or O_RDWR, and no
\* target for any other access mode.
C19_ModifyIffWrite ==
  Started =>
    \A p \in Pids :
      (procs[p].why = "sys_entry" /\ procs[p].regs.orig_rax \in OpenFamily) =>
        \A t \in {TargetsAt(p)} :
          t.ok =>
            IF OpensForWriting(OpenFlagsOf(procs[p].regs))
            THEN Len(t.val) = 1 /\ t.val[1].operation = "Modify"
            ELSE t.val = <<>>

\* The two names of a call of the rename family, by the calling convention:
\* rename(old, new) and renameat[2](olddirfd, old, newdirfd, new). A relative
\* name is taken from the directory of its own dirfd, AT_FDCWD (as 32 or 64
\* bits) being the tracee's cwd; an absolute name stands for itself.
RenameFamily == {"rename", "renameat", "renameat2"}
StrAt(reg) == The({Strs[i].s : i \in {j \in 1..Len(Strs) : Strs[j].at = reg.lo}})
DirOfFd(reg) == IF reg \in {AT_FDCWD, AT_FDCWD64} THEN Cwd ELSE DirOf[reg.lo]
Resolved(dir, name) == IF name[1] = "/" THEN name ELSE dir \o <<"/">> \o name
OldOf(regs) ==
  IF regs.orig_rax = "rename" THEN Resolved(Cwd, StrAt(regs.rdi))
  ELSE Resolved(DirOfFd(regs.rdi), StrAt(regs.rsi))
NewOf(regs) ==
  IF regs.orig_rax = "rename" THEN Resolved(Cwd, StrAt(regs.rsi))
  ELSE Resolved(DirOfFd(regs.rdx), StrAt(regs.r10))

\* C20: for rename, renameat and renameat2 the decoder yields exactly
\* Delete(old) and Modify(new), each name resolved against its own directory
\* fd, and the call is carried out only if no rule matches either of them.
C20_RenameTwoTargets ==
  Started =>
    \A p \in Pids :
      (procs[p].why = "sys_entry" /\ procs[p].regs.orig_rax \in RenameFamily) =>
        \A t \in {TargetsAt(p)}, sysno \in {procs[p].regs.orig_rax} :
          /\ t.ok
          /\ t.val = <<SyscallTarget("Delete", sysno, OldOf(procs[p].regs)),
                       SyscallTarget("Modify", sysno, NewOf(procs[p].regs))>>
          /\ procs[p].st = "insys" =>
               \A r \in Elems(options.rules), tg \in Elems(t.val) : ~Matches(r, tg)

\* A renameat2 whose names are relative to different directories is stopped by
\* a rule that matches the new name only.
C20_Witness ==
  /\ Started
  /\ \E p \in Pids :
       /\ Killed(p) /\ status_code = Some(254)
       /\ procs[p].regs.orig_rax = "renameat2"
       /\ DirOfFd(procs[p].regs.rdi) # DirOfFd(procs[p].regs.rdx)
       /\ The(stderr).path = NewOf(procs[p].regs)
       /\ NewOf(procs[p].regs) # OldOf(procs[p].regs)

\* The new name of a call of the link family, by the calling convention:
\* link(old, new), symlink(target, linkpath), linkat(olddirfd, old, newdirfd,
\* new, flags) and symlinkat(target, newdirfd, linkpath).
LinkFamily == {"link", "symlink", "linkat", "symlinkat"}
LinkNewOf(regs) ==
  CASE regs.orig_rax \in {"link", "symlink"} -> Resolved(Cwd, StrAt(regs.rsi))
    [] regs.orig_rax = "linkat" -> Resolved(DirOfFd(regs.rdx), StrAt(regs.r10))
    [] regs.orig_rax = "symlinkat" -> Resolved(DirOfFd(regs.rsi), StrAt(regs.rdx))

\* C21: for link, linkat, symlink and symlinkat the decoder yields exactly one
\* target, Modify of the new name resolved against the new directory fd (or
\* the cwd); the existing name is never the checked path.
C21_LinkOneTarget ==
  Started =>
    \A p \in Pids :
      (procs[p].why = "sys_entry" /\ procs[p].regs.orig_rax \in LinkFamily) =>
        \A t \in {TargetsAt(p)} :
          /\ t.ok
          /\ t.val = <<SyscallTarget("Modify", procs[p].regs.orig_rax,
                                      LinkNewOf(procs[p].regs))>>

\* The length of the string that a register points to, and the calls whose
\* path argument is longer than the limit of read_path.
StrLenAt(reg) ==
  The({Len(Strs[i].s) * Strs[i].n : i \in {j \in 1..Len(Strs) : Strs[j].at = reg.lo}})
LongPath(regs) == regs.orig_rax = "unlink" /\ StrLenAt(regs.rdi) > PathMax

\* C22: a syscall whose path argument exceeds 8192 bytes is allowed: the
\* decoder rejects the path, the event is only logged, the tracee is resumed
\* (never killed by the tracer) and the tracer keeps running.
C22_LongPathAllowed ==
  Started =>
    \A p \in Pids :
      (procs[p].why = "sys_entry" /\ LongPath(procs[p].regs)) => ~Killed(p)

\* The syscalls that have an arm in get_syscall_targets.
Listed ==
  {"open", "truncate", "rmdir", "rename", "creat", "link", "unlink", "symlink",
   "openat", "unlinkat", "renameat", "linkat", "symlinkat", "renameat2", "openat2"}
NoTargets(p) == TargetsAt(p) = ROk(<<>>)

\* C26 as stated: targets are produced only at the syscall-entry stop of a
\* listed syscall; every syscall-exit stop yields the empty list.
C26_EntryStopOnly ==
  Started =>
    \A p \in Pids :
      (procs[p].st = "stop" /\ ~NoTargets(p)) =>
        procs[p].why = "sys_entry" /\ procs[p].regs.orig_rax \in Listed

\* C26, amended: a stop whose rax is not -ENOSYS (every exit stop of a call
\* that did not fail with ENOSYS), and a stop of an unlisted or unrecognised
\* syscall, yields the empty list, and the tracer never kills that tracee
\* there; a stop that yields targets has rax = -ENOSYS and a listed syscall.
C26_NoTargetsUnlessEnosys ==
  Started =>
    \A p \in Pids :
      procs[p].st \in {"stop", "signaled"} =>
        /\ (procs[p].regs.rax # NegENOSYS \/ procs[p].regs.orig_rax \notin Listed)
             => NoTargets(p) /\ ~Killed(p)
        /\ ~NoTargets(p) =>
             procs[p].regs.rax = NegENOSYS /\ procs[p].regs.orig_rax \in Listed

\* The exit stop of a listed syscall that returned 0, whose entry stop gave
\* targets, and the stop of the unrecognised syscall.
C26_Witness ==
  /\ tpc = "loop"
  /\ procs[Main].st = "stop" /\ procs[Main].why = "sys_exit"
  /\ procs[Main].regs.rax = U(0) /\ procs[Main].regs.orig_rax = "renameat"
  /\ Targets([procs[Main].regs EXCEPT !.rax = NegENOSYS], FALSE) # ROk(<<>>)
  /\ procs[Sub].st = "stop" /\ procs[Sub].why = "sys_entry"
  /\ procs[Sub].regs.orig_rax = "write"

\* What a call does to the file system when the kernel carries it out, by the
\* calling convention: the operations and paths that the rules speak about.
HasStr(reg) == \E i \in 1..Len(Strs) : Strs[i].at = reg.lo /\ Strs[i].n = 1
OpenPathOf(regs) ==
  IF regs.orig_rax = "open" THEN Resolved(Cwd, StrAt(regs.rdi))
  ELSE Resolved(DirOfFd(regs.rdi), StrAt(regs.rsi))
Effects(regs) ==
  CASE regs.orig_rax \in {"open", "unlink"} /\ ~HasStr(regs.rdi) -> {}
    [] regs.orig_rax = "unlink" ->
         {SyscallTarget("Delete", "unlink", Resolved(Cwd, StrAt(regs.rdi)))}
    [] regs.orig_rax = "unlinkat" ->
         {SyscallTarget("Delete", "unlinkat", Resolved(DirOfFd(regs.rdi), StrAt(regs.rsi)))}
    [] regs.orig_rax \in OpenFamily ->
         IF OpensForWriting(OpenFlagsOf(regs))
         THEN {SyscallTarget("Modify", regs.orig_rax, OpenPathOf(regs))} ELSE {}
    [] regs.orig_rax \in RenameFamily ->
         {SyscallTarget("Delete", regs.orig_rax, OldOf(regs)),
          SyscallTarget("Modify", regs.orig_rax, NewOf(regs))}
    [] regs.orig_rax \in LinkFamily ->
         {SyscallTarget("Modify", regs.orig_rax, LinkNewOf(regs))}
    [] OTHER -> {}
Forbidden(regs) ==
  \E r \in Elems(options.rules), tg \in Effects(regs) : Matches(r, tg)

\* C30: a syscall that matches a rule never takes effect: the kernel never
\* carries out a modification or deletion that a rule forbids, the tracee is
\* killed at the syscall-entry stop.
C30_ForbiddenNeverRuns ==
  Started =>
    \A p \in Pids :
      procs[p].why = "sys_entry" /\ Forbidden(procs[p].regs) => procs[p].st # "insys"

\* C23: the start-up handshake. Until the tracer enters its loop the original
\* tracee has not run past raise(SIGSTOP): it is before it, stopped by it, or
\* dead, and has no descendant. It leaves that stop only by the tracer's first
\* ptrace::syscall, after waitpid has reported the stop and setoptions has set
\* the options on it.
C23_Handshake ==
  /\ [](tpc \in {"setup", "waitpid", "setoptions", "resume"} =>
          /\ procs[Main].st \in {"pre", "stop", "signaled"}
          /\ procs[Main].st = "stop" => procs[Main].why = "attach"
          /\ procs[Sub].st = "none")
  /\ [][(Started /\ procs[Main].st = "stop" /\ procs[Main].why = "attach"
           /\ procs'[Main].st \notin {"stop", "signaled"}) =>
          /\ tpc = "resume" /\ tpc' = "loop"
          /\ procs[Main].rep /\ Main \in tracer.traced
          /\ procs'[Main].st = "run"]_vars

\* The handshake is over and the tracee's first syscall has stopped it.
C23_Witness ==
  /\ tpc = "loop" /\ Main \in tracer.traced
  /\ procs[Main].st = "stop" /\ procs[Main].why = "sys_entry"

\* C24: while the tracer is alive every live descendant of the original tracee
\* is a tracee with the ptrace options set, and no process of the tree has made
\* a syscall that the tracer did not inspect at its entry stop.
C24_AllTraced ==
  (Started /\ TracerAlive) =>
    /\ \A p \in Pids \ {Main} :
         procs[p].st \in {"run", "stop", "insys"} =>
           p \in tracer.traced /\ procs[p].why # "untraced"
    /\ \A p \in Pids :
         procs[p].regs.orig_rax # "none" => procs[p].why \in {"sys_entry", "sys_exit"}

\* C25 as stated: the tracer answers the signal-delivery-stop of a tracee for
\* any signal but SIGTRAP by resuming the tracee with that signal.
C25_SignalInjected ==
  [][\A p \in Pids :
       (Started /\ procs[p].st = "stop" /\ procs[p].why = "signal"
        /\ procs[p].n # SIGTRAP
        /\ tpc' = "loop" /\ procs'[p] # procs[p] /\ procs'[p].by # "SIGKILL") =>
         procs'[p] = Died(procs[p], procs[p].n, "signal")]_vars

\* C25, amended: when the tracer handles the signal-delivery-stop of a tracee
\* and goes on, a signal other than SIGTRAP and SIGSTOP is injected into the
\* tracee, and SIGTRAP and SIGSTOP are dropped: the tracee runs on.
C25_InjectedUnlessTrapOrStop ==
  [][\A p \in Pids :
       (Started /\ procs[p].st = "stop" /\ procs[p].why = "signal"
        /\ tpc' = "loop" /\ procs'[p] # procs[p] /\ procs'[p].by # "SIGKILL") =>
         IF procs[p].n \in {SIGTRAP, SIGSTOP}
         THEN procs'[p].st = "run"
         ELSE procs'[p] = Died(procs[p], procs[p].n, "signal")]_vars

\* A SIGTERM sent to the descendant has been injected into it.
C25_Witness ==
  /\ tpc = "loop"
  /\ procs[Sub].st = "signaled" /\ procs[Sub].by = "signal" /\ procs[Sub].n = SIGTERM

\* C28: after its set-up the tracer holds no descriptor but 2.
C28_OnlyStderr ==
  tpc \in {"waitpid", "setoptions", "resume", "loop"} => tracer.fds = {2}

\* C29: forward_signal is installed only once CHILD_PID holds the pid of the
\* original tracee, and every signal the tracer gets from then on is sent on to
\* that pid and to no other, except SIGCHLD (SIGKILL and SIGSTOP cannot be
\* caught), which is not sent on.
C29_ForwardedToMain ==
  /\ tracer.handlers => tracer.CHILD_PID = Main
  /\ \A k \in tracer.signals : k.to = (IF Handled(k.sig) THEN Some(Main) ELSE None)

\* A SIGTERM to the tracer has stopped the running original tracee with
\* SIGTERM; a SIGCHLD has not been sent on.
C29_Witness ==
  /\ tracer.signals = {[sig |-> SIGTERM, to |-> Some(Main)], [sig |-> SIGCHLD, to |-> None]}
  /\ procs[Main].st = "stop" /\ procs[Main].why = "signal" /\ procs[Main].n = SIGTERM

\* C27 as stated: the calls of the pre-exec hook are made in the fixed order
\* and the failure of any of them aborts the child: it is the last call made
\* and the child does not exec.
C27_AnyFailureAborts ==
  /\ \A i \in 1..Len(hook.calls) : hook.calls[i][1] = HookSteps[i]
  /\ \A i \in 1..Len(hook.calls) :
       ~hook.calls[i][2] => (i = Len(hook.calls) /\ hook.end = "Err")

\* C27, amended: the calls are made in the fixed order; a failure of setsid or
\* of the TIOCSCTTY ioctl aborts the child before exec and no later call is
\* made; the child execs only after all ten calls, the first two successful;
\* a failure of close or signal changes nothing.
C27_SetsidOrCttyFailureAborts ==
  /\ \A i \in 1..Len(hook.calls) : hook.calls[i][1] = HookSteps[i]
  /\ \A i \in 1..Len(hook.calls) :
       (~hook.calls[i][2] /\ hook.calls[i][1] \in {"setsid", "TIOCSCTTY"}) =>
         (i = Len(hook.calls) /\ hook.end = "Err")
  /\ hook.end = "Err" =>
       \E i \in 1..2 : i = Len(hook.calls) /\ ~hook.calls[i][2]
  /\ hook.end \in {"Ok", "exec"} =>
       (Len(hook.calls) = Len(HookSteps) /\ hook.calls[1][2] /\ hook.calls[2][2])
  /\ (Len(hook.calls) \in 3..(Len(HookSteps) - 1) /\ ~hook.calls[Len(hook.calls)][2]) =>
       hook.end = "none"

\* The ioctl has failed after a successful setsid: the closure has returned
\* Err with no further call made.
C27_Witness ==
  /\ hook.end = "Err" /\ Len(hook.calls) = 2
  /\ hook.calls[1] = <<"setsid", TRUE>> /\ hook.calls[2] = <<"TIOCSCTTY", FALSE>>

\* wait() has reported a stop of p and p is killed before the tracer's first
\* ptrace request on it: the request fails with ESRCH.
GoneAtRequest(p) ==
  /\ tpc = "loop"
  /\ procs[p].st = "stop" /\ ~procs[p].rep
  /\ procs'[p].st = "signaled" /\ procs'[p].by = "SIGKILL"

\* C31: a tracee that disappears between the wait() result and the tracer's next
\* ptrace request on it never makes the tracer fail: the tracer stays in the
\* supervision loop, and the other tracees are left as they are.
C31_GoneTolerated ==
  [][\A p \in Pids : GoneAtRequest(p) =>
       /\ tpc' = "loop"
       /\ \A q \in Pids \ {p} : procs'[q] = procs[q]]_vars

\* wait() has reported a stop of p and the tracer has not resumed p.
Pending(p) == procs[p].st = "stop" /\ procs[p].rep
\* wait() can report a stop of p.
StopToReport(p) == procs[p].st = "stop" /\ ~procs[p].rep /\ p \in tracer.traced

\* C32: in the supervision loop every stop that wait() reports for a pid is
\* answered in the same turn of the loop by resuming that pid, unless the tracer
\* terminates in that turn: no tracee is stopped with its stop reported while
\* the tracer is in the loop, and a step that takes a stop away leaves the
\* tracee resumed or dead, or the tracer terminated.
C32_StopAnswered ==
  /\ [](tpc = "loop" => \A p \in Pids : ~Pending(p))
  /\ [][\A p \in Pids :
          (tpc = "loop" /\ StopToReport(p) /\ procs'[p] # procs[p]) =>
            \/ tpc' = "exited"
            \/ procs'[p].st \in {"run", "insys", "exited", "signaled"}]_vars

\* The tracer is in the loop after it has answered the stops of both tracees:
\* the descendant is inside the syscall whose entry stop was reported, the
\* original tracee runs again after the stop of its fork.
C32_Witness ==
  /\ tpc = "loop"
  /\ procs[Sub].st = "insys" /\ procs[Sub].why = "sys_entry"
  /\ procs[Main].st = "run"
  /\ Sub \in tracer.traced

\* The tracer has terminated with status 254.
Exit254 == Started /\ tpc = "exited" /\ status_code = Some(254)
\* The tracer has killed p at the entry of a call that matches a rule.
Violation(p) == Killed(p) /\ HasMatch(p)
\* The tracer has printed the line of a SandboxError.
SandboxErrorPrinted == \E e \in stderr : e.kind = "SandboxError"

\* C33 as stated: the tracer exits with status 254 only if some traced syscall
\* matched a rule.
C33_Only254OnMatch == Exit254 => \E p \in Pids : HasMatch(p)

\* C33, amended: the tracer exits with status 254 when a traced syscall matched
\* a rule, then with the SandboxError printed to stderr, and when the original
\* tracee itself has exited with code 254, then with nothing printed; the
\* SandboxError line is printed only for a violation and only with status 254.
C33_254ViolationOrOwnCode ==
  /\ Exit254 =>
       \/ SandboxErrorPrinted /\ \E p \in Pids : Violation(p)
       \/ /\ stderr = None
          /\ procs[Main].st = "exited" /\ procs[Main].rep /\ procs[Main].n = 254
  /\ (Started /\ SandboxErrorPrinted) => (Exit254 /\ \E p \in Pids : Violation(p))

\* The original tracee has called exit(254) with no call of any tracee matching
\* a rule: the tracer has terminated with 254 and has printed nothing.
C33_Witness ==
  /\ Exit254 /\ stderr = None
  /\ procs[Main].st = "exited" /\ procs[Main].n = 254
  /\ \A p \in Pids : ~HasMatch(p)

(* ------------------------------- lib.rs -------------------------------- *)
\* The reaper is in its drain closure, after pidfd_open.
InDrainLoop == rpc \in {"poll_ctrl", "poll_pidfd", "check"}
\* The descriptor number n is closed in this step.
ClosedNow(n) == fds[n] # "free" /\ fds'[n] = "free"
\* The numbers of the close(2) calls of a host call.
ClosesOf(r) == {r.sys[i][2] : i \in {j \in 1..Len(r.sys) : r.sys[j][1] = "close"}}

\* C34: the reaper drains through its own duplicate of the controller: however
\* close(), fd() and resize() interleave with the reaper thread, the descriptors
\* the reaper polls and reads are open (its clone is a controller, its pidfd a
\* pidfd) and none of them is the handle's; only the reaper closes them; every
\* descriptor the handle holds is open, and a close() closes each of them once:
\* it issues close(2) only on open descriptors that the handle held and no
\* longer holds, and a failed close() closes nothing.
C34_ReaperOwnsItsDup ==
  /\ [](/\ (rpc = "pidfd_open" \/ InDrainLoop) =>
             (r_ctrl # None /\ \A n \in r_ctrl : fds[n] = "ctrl")
        /\ InDrainLoop => (r_pidfd # None /\ \A n \in r_pidfd : fds[n] = "pidfd")
        /\ ReaperFds \cap HandleFds = {}
        /\ \A n \in controller_fd : fds[n] = "ctrl"
        /\ \A n \in user_fd : fds[n] = "user")
  /\ [][/\ \A n \in ReaperFds : ClosedNow(n) => n \notin ReaperFds'
        /\ \A n \in HandleFds : ClosedNow(n) => n \notin HandleFds'
        /\ (lastCall'.op = "close" /\ CloseCall) =>
             /\ ClosesOf(lastCall') = HandleFds
             /\ \A n \in ClosesOf(lastCall') : ClosedNow(n) /\ n \notin HandleFds'
             /\ ~lastCall'.ok => fds' = fds]_vars

\* close() has succeeded after an fd() while the reaper is in its loop, about to
\* read from its clone of the controller, which is open.
C34_Witness ==
  /\ closeOk /\ fdOk
  /\ rpc = "check" /\ revents[1]
  /\ \A n \in r_ctrl : fds[n] = "ctrl"
  /\ r_ctrl # None

====
